---- MODULE Spec2Model ----
(***************************************************************************)
(* Loot Survivor context engine: phase detection, combat mathematics and   *)
(* the unified activity feed, modelled from the TypeScript sources.        *)
(*                                                                         *)
(* The server is stateless per request, so every specification below has   *)
(* the same shape: Init draws the upstream data (snapshot row, loadout,    *)
(* beast, event rows) from bounded sets, and each action is one handler    *)
(* or one pure function applied to that data, leaving its result in a      *)
(* result variable.  The variables of the other specifications are held    *)
(* at their idle values.                                                   *)
(***************************************************************************)
EXTENDS Integers, Sequences, FiniteSets, TLC

VARIABLES
    row,        \* latest GameEvent row of the requested game (NoRow if none)
    events,     \* event rows used by the secondary beast lookup
    resp,       \* response of the last /game/:id/context request
    calc,       \* last pure-function application: [fn, arg, out]
    adv,        \* adventurer raw data used by the combat mathematics
    beast,      \* beast raw data used by the combat mathematics
    preview,    \* last combat preview / simulation result
    feedIn,     \* inputs of buildUnifiedActivityFeed: [events, packed, bagPacked, built]
    feed,       \* last unified activity feed (sequence of entries)
    recentEvents, \* recentEvents of the last game context: [done, entries]
    session,    \* agent session context: [args, defaultGameId, memory, pc, contexts]
    gameStateCache, \* agent game-state cache: [entry, resets]
    loads,      \* loadGameState calls: call -> [pc, started, issued, result]
    itemEntity, \* an ItemEntity: [raw, cached, read], read being the last getter result
    client      \* SystemCallsClient call in progress

vars == <<row, events, resp, calc, adv, beast, preview, feedIn, feed, recentEvents,
          session, gameStateCache, loads, itemEntity, client>>

agentVars == <<gameStateCache, loads, itemEntity, client>>

phaseVars == <<row, events, resp, session>>

combatVars == <<adv, beast, preview>>

feedVars == <<feedIn, feed, recentEvents>>

(***************************************************************************)
(* JavaScript values.  A column of a SQL row is a number or null; NULL     *)
(* stands for null/undefined.  The helpers follow JavaScript's truthiness  *)
(* (`!v`, `v || 0`) and its comparisons with null (`null > 0` is false).   *)
(***************************************************************************)
NULL == -1

\* The number parseInt yields when no digit can be read.
NaN == -2

Falsy(v) == v = NULL \/ v = 0

OrZero(v) == IF Falsy(v) THEN 0 ELSE v

OrOne(v) == IF Falsy(v) THEN 1 ELSE v

Gt0(v) == v # NULL /\ v > 0

Le0(v) == v # NULL /\ v <= 0

Max(a, b) == IF a >= b THEN a ELSE b

Min(a, b) == IF a <= b THEN a ELSE b

(***************************************************************************)
(* Bounds of the model.                                                    *)
(***************************************************************************)
MaxHealth == 2          \* health / beast_health columns range over NULL, 0..MaxHealth
MaxUpgrades == 1        \* stat_upgrades_available ranges over NULL, 0..MaxUpgrades

(***************************************************************************)
(* Beast classification by id (three bands of 25 ids).                     *)
(***************************************************************************)
WolfId == 47

BeastName(id) == IF id = WolfId THEN "Wolf" ELSE "Beast"

(***************************************************************************)
(* Phase detection, engine path: GameStateService.determinePhase reads the *)
(* three columns of the row directly.                                      *)
(***************************************************************************)
determinePhaseCombatFirst(r) ==
    IF Gt0(r.beast_health) THEN "combat"
    ELSE IF Falsy(r.health) \/ Le0(r.health) THEN "death"
    ELSE IF Gt0(r.stat_upgrades_available) THEN "level_up"
    ELSE "exploration"

determinePhase(r) ==
    IF Falsy(r.health) \/ Le0(r.health) THEN "death"
    ELSE IF ~Falsy(r.beast_health) /\ Gt0(r.beast_health) THEN "combat"
    ELSE IF ~Falsy(r.stat_upgrades_available) /\ Gt0(r.stat_upgrades_available) THEN "level_up"
    ELSE "exploration"

\* A beast reference that may be null: NoBeast is null, SomeBeast(id) a beast
\* with that id (the id itself may be NULL).
NoBeast == [some |-> FALSE, id |-> NULL]

SomeBeast(id) == [some |-> TRUE, id |-> id]

\* GameStateService.parseBeast: the beast of the row, or null when the row
\* carries no positive details.beast.health.
parseBeast(r) ==
    IF Falsy(r.beast_rec_health) \/ Le0(r.beast_rec_health) THEN NoBeast
    ELSE SomeBeast(r.beast_id)

\* ContextEngine.generateContext: the phase of the state picks the builder;
\* buildCombatContext renders beast?.name || 'Unknown'.
generateContext(phase, b) ==
    [status |-> "ok", path |-> "engine", phase |-> phase,
     beastName |-> IF phase = "combat"
                   THEN (IF b.some THEN BeastName(b.id) ELSE "Unknown")
                   ELSE "-"]

(***************************************************************************)
(* Phase detection, entity path: GameContext.getGameContext resolves the   *)
(* current beast, SimpleContextEngine.detectPhase classifies the context.  *)
(***************************************************************************)
\* AdventurerEntity.isInBattle on the raw data built by fetch
\* (beast_health: data.beast_health || 0).
isInBattle(r) == OrZero(r.beast_health) > 0

\* GameContext.extractCurrentBeastId: the first BeastEncounter event's
\* beast_id, or null.
extractCurrentBeastId(evs) ==
    LET idx == {i \in 1..Len(evs) : evs[i].event_type = "BeastEncounter"}
    IN  IF idx = {} THEN NULL
        ELSE LET first == CHOOSE i \in idx : \A j \in idx : i <= j
             IN  IF Falsy(evs[first].beast_id) THEN NULL ELSE evs[first].beast_id

\* IndexerClient.getBeast never returns null: without a row for the id it
\* returns a level-1 beast of that id, so the secondary lookup yields a
\* beast whenever it has an id.

\* The currentBeast of getGameContext: the beast of the latest row when it
\* names one, else the beast found by the secondary lookup, else null.
currentBeastOf(r, evs) ==
    IF ~isInBattle(r) THEN NoBeast
    ELSE IF ~Falsy(r.beast_id) THEN SomeBeast(r.beast_id)
    ELSE IF extractCurrentBeastId(evs) # NULL THEN SomeBeast(extractCurrentBeastId(evs))
    ELSE NoBeast

\* SimpleContextEngine.detectPhase over the formatted context.
detectPhase(health, currentBeast, statUpgradesAvailable) ==
    IF Falsy(health) \/ Le0(health) THEN "death"
    ELSE IF currentBeast.some THEN "combat"
    ELSE IF Gt0(statUpgradesAvailable) THEN "level_up"
    ELSE "exploration"

\* SimpleContextEngine.build: buildCombatContext renders
\* currentBeast?.name || 'Unknown'.
build(health, currentBeast, statUpgradesAvailable) ==
    LET phase == detectPhase(health, currentBeast, statUpgradesAvailable)
    IN  [status |-> "ok", path |-> "entity", phase |-> phase,
         beastName |-> IF phase = "combat"
                       THEN (IF currentBeast.some THEN BeastName(currentBeast.id)
                             ELSE "Unknown")
                       ELSE "-"]

NotFound(path) == [status |-> "error", path |-> path, phase |-> "-", beastName |-> "-"]

Pending == [status |-> "pending", path |-> "-", phase |-> "-", beastName |-> "-"]

NoRow == [present |-> FALSE, health |-> NULL, beast_health |-> NULL,
          stat_upgrades_available |-> NULL, beast_id |-> NULL,
          beast_rec_health |-> NULL]

Rows ==
    [present : {TRUE},
     health : {NULL} \cup 0..MaxHealth,
     beast_health : {NULL} \cup 0..MaxHealth,
     stat_upgrades_available : {NULL} \cup 0..MaxUpgrades,
     beast_id : {NULL, WolfId},
     beast_rec_health : {NULL, 0, 21}]

EventLists ==
    { <<>>,
      << [event_type |-> "Attack", beast_id |-> NULL] >>,
      << [event_type |-> "Attack", beast_id |-> NULL],
         [event_type |-> "BeastEncounter", beast_id |-> WolfId] >>,
      << [event_type |-> "BeastEncounter", beast_id |-> NULL] >> }

(***************************************************************************)
(* Idle values of the variables a specification does not use.              *)
(***************************************************************************)
CalcIdle == [fn |-> "none"]

NoAdventurer == [loaded |-> FALSE]

NoPreview == [op |-> "none"]

NoFeedIn == [events |-> <<>>, packed |-> <<>>, bagPacked |-> <<>>, built |-> FALSE]

DEFAULT_GAME_ID == 21603

\* sessionContext.create: the memory of a session before its first load.
\* DEFAULT_GAME_ID is parsed from the environment and is NaN when the
\* variable holds no number; memory.gameId is then undefined (NULL).
create(defaultGameId) ==
    [hasActiveGame |-> FALSE, phase |-> "start",
     gameId |-> IF defaultGameId # NaN THEN defaultGameId ELSE NULL]

NoSession ==
    [args |-> [gameId |-> NULL], defaultGameId |-> DEFAULT_GAME_ID,
     memory |-> create(DEFAULT_GAME_ID), pc |-> "created", contexts |-> <<>>]

\* Idle values of the agent-side state.
NoCache == [entry |-> NULL, resets |-> 0]

\* A new ItemEntity: raw is null, the cache map is empty, nothing was read.
\* cached holds the keys set and, for each key, its value.
NoItemEntity ==
    [raw |-> [present |-> FALSE, id |-> 0, xp |-> 0],
     cached |-> [keys |-> {}, level |-> 0, tier |-> 0, type |-> "", slot |-> ""],
     read |-> [key |-> "none", number |-> 0, text |-> ""]]

NoClient == [op |-> "-"]

AgentIdle ==
    gameStateCache = NoCache /\ loads = <<>> /\ itemEntity = NoItemEntity /\ client = NoClient

PhaseIdle == row = NoRow /\ events = <<>> /\ resp = Pending /\ session = NoSession

CombatIdle == adv = NoAdventurer /\ beast = NoBeast /\ preview = NoPreview

NoRecent == [done |-> FALSE, entries |-> <<>>]

FeedIdle == feedIn = NoFeedIn /\ feed = <<>> /\ recentEvents = NoRecent

(***************************************************************************)
(* Specification of the context request: GET /game/:id/context on the two  *)
(* servers.                                                                *)
(***************************************************************************)
InitPhase ==
    /\ AgentIdle
    /\ row \in Rows \cup {NoRow}
    /\ events \in EventLists
    /\ resp = Pending
    /\ session = NoSession
    /\ calc = CalcIdle
    /\ CombatIdle
    /\ FeedIdle

\* Engine server: GameStateService.getGameState, then
\* ContextEngine.generateContext.
EngineGetContext ==
    /\ resp' = IF ~row.present THEN NotFound("engine")
               ELSE generateContext(determinePhase(row), parseBeast(row))
    /\ UNCHANGED <<row, events, session, calc, combatVars, feedVars, agentVars>>

\* Entity server: GameContext.getGameContext, then SimpleContextEngine.build
\* (format() passes raw.health and stat_upgrades_available || 0).
GameContextGetContext ==
    /\ resp' = IF ~row.present THEN NotFound("entity")
               ELSE build(row.health, currentBeastOf(row, events),
                          OrZero(row.stat_upgrades_available))
    /\ UNCHANGED <<row, events, session, calc, combatVars, feedVars, agentVars>>

NextPhase == EngineGetContext \/ GameContextGetContext

SpecPhase == InitPhase /\ [][NextPhase]_vars

(***************************************************************************)
(* C1: determinePhase returns exactly one phase by the fixed priority      *)
(* death > combat > level_up > exploration over the snapshot row; a row    *)
(* with health 0 and beast_health > 0 is death, never combat.              *)
(***************************************************************************)
C1_PhasePriority ==
    (resp.status = "ok" /\ resp.path = "engine") =>
        LET dead == row.health = NULL \/ row.health <= 0
            fighting == row.beast_health # NULL /\ row.beast_health > 0
            upgrading == row.stat_upgrades_available # NULL
                         /\ row.stat_upgrades_available > 0
        IN  /\ resp.phase \in {"death", "combat", "level_up", "exploration"}
            /\ (resp.phase = "death") <=> dead
            /\ (resp.phase = "combat") <=> (~dead /\ fighting)
            /\ (resp.phase = "level_up") <=> (~dead /\ ~fighting /\ upgrading)
            /\ (resp.phase = "exploration") <=> (~dead /\ ~fighting /\ ~upgrading)

C1_Witness ==
    /\ resp.status = "ok" /\ resp.path = "engine"
    /\ row.health = 0 /\ row.beast_health > 0
    /\ resp.phase = "death"

(***************************************************************************)
(* C2: an alive adventurer with beast_health > 0 for whom neither the      *)
(* primary beast record nor the secondary lookup yields a beast is still   *)
(* answered, in the combat phase, with the placeholder beast 'Unknown',    *)
(* on both servers.                                                        *)
(***************************************************************************)
C2_NoBeastFound ==
    /\ row.present
    /\ Gt0(row.health) /\ Gt0(row.beast_health)
    /\ Falsy(row.beast_id) /\ ~parseBeast(row).some
    /\ extractCurrentBeastId(events) = NULL

C2_PlaceholderCombat ==
    (resp.status # "pending" /\ C2_NoBeastFound) =>
        /\ resp.status = "ok"
        /\ resp.phase = "combat"
        /\ resp.beastName = "Unknown"

(***************************************************************************)
(* Pure game mathematics (utils/game, ItemEntity, GameStateService,        *)
(* CombatSystem).                                                          *)
(***************************************************************************)
MaxBase == 9            \* base attack values 0..MaxBase
MaxXp == 16             \* xp values 0..MaxXp (levels up to 4)
MaxStat == 4            \* dexterity / wisdom values 0..MaxStat
MaxCharisma == 11       \* charisma values 0..MaxCharisma
MaxTierPrice == 2       \* values of the imported TIER_PRICE constant, 1..MaxTierPrice
MaxMarket == 2          \* market lists of 1..MaxMarket raw entries

\* Math.floor(Math.sqrt(x)) for a non-negative integer x: the largest r with
\* r * r <= x, searched upwards from r.
RECURSIVE FloorSqrtFrom(_, _)
FloorSqrtFrom(x, r) == IF (r + 1) * (r + 1) > x THEN r ELSE FloorSqrtFrom(x, r + 1)

FloorSqrt(x) == FloorSqrtFrom(x, 0)

\* utils/game calculateLevel.
calculateLevel(xp) == IF xp = 0 THEN 1 ELSE FloorSqrt(xp)

\* GameStateService.mapRowToGameState / parseItem:
\* Math.floor(Math.sqrt(xp || 0)).
inlineLevel(xp) == FloorSqrt(OrZero(xp))

AttackTypes == {"Magic", "Blade", "Bludgeon"}

ArmorTypes == {"Cloth", "Hide", "Metal"}

ItemTypes == AttackTypes \cup ArmorTypes \cup {"Ring", "Necklace", "None"}

elementalAdjustedDamageShifted(base_attack, weapon_type, armor_type) ==
    LET elemental_effect == base_attack \div 2
    IN  IF \/ (weapon_type = "Magic" /\ armor_type = "Cloth")
           \/ (weapon_type = "Blade" /\ armor_type = "Cloth")
           \/ (weapon_type = "Bludgeon" /\ armor_type = "Hide")
        THEN base_attack + elemental_effect
        ELSE IF \/ (weapon_type = "Magic" /\ armor_type = "Hide")
                \/ (weapon_type = "Blade" /\ armor_type = "Metal")
                \/ (weapon_type = "Bludgeon" /\ armor_type = "Cloth")
        THEN base_attack - elemental_effect
        ELSE base_attack

\* utils/game elementalAdjustedDamage.
elementalAdjustedDamage(base_attack, weapon_type, armor_type) ==
    LET elemental_effect == base_attack \div 2
    IN  IF \/ (weapon_type = "Magic" /\ armor_type = "Metal")
           \/ (weapon_type = "Blade" /\ armor_type = "Cloth")
           \/ (weapon_type = "Bludgeon" /\ armor_type = "Hide")
        THEN base_attack + elemental_effect
        ELSE IF \/ (weapon_type = "Magic" /\ armor_type = "Hide")
                \/ (weapon_type = "Blade" /\ armor_type = "Metal")
                \/ (weapon_type = "Bludgeon" /\ armor_type = "Cloth")
        THEN base_attack - elemental_effect
        ELSE base_attack

\* ItemEntity.calculateTier (0 is Tier.None).
calculateTier(id) ==
    IF id <= 0 THEN 0
    ELSE IF id <= 3 THEN 1
    ELSE IF id = 4 THEN 2
    ELSE IF id = 5 THEN 3
    ELSE IF id <= 8 THEN 1
    ELSE IF id <= 41 THEN
        (IF id \in {9, 13, 17, 22, 27, 32, 37} THEN 1
         ELSE IF id \in {10, 14, 18, 23, 28, 33, 38} THEN 2
         ELSE IF id \in {11, 15, 19, 24, 29, 34, 39} THEN 3
         ELSE IF id \in {20, 25, 30, 35, 40} THEN 4
         ELSE 5)
    ELSE IF id <= 71 THEN
        (IF id \in {42, 47, 52, 57, 62, 67} THEN 1
         ELSE IF id \in {43, 48, 53, 58, 63, 68} THEN 2
         ELSE IF id \in {44, 49, 54, 59, 64, 69} THEN 3
         ELSE IF id \in {45, 50, 55, 60, 65, 70} THEN 4
         ELSE 5)
    ELSE IF id \in {72, 77, 82, 87, 92, 97} THEN 1
    ELSE IF id \in {73, 78, 83, 88, 93, 98} THEN 2
    ELSE IF id \in {74, 79, 84, 89, 94, 99} THEN 3
    ELSE IF id \in {75, 80, 85, 90, 95, 100} THEN 4
    ELSE 5

\* ItemEntity.getBasePrice; tierPrice is the value of the imported
\* TIER_PRICE constant.
getBasePrice(tier, tierPrice) ==
    CASE tier = 1 -> 5 * tierPrice
      [] tier = 2 -> 4 * tierPrice
      [] tier = 3 -> 3 * tierPrice
      [] tier = 4 -> 2 * tierPrice
      [] tier = 5 -> tierPrice
      [] OTHER -> 0

applyCharismaDiscountUnclamped(basePrice, charisma) ==
    basePrice - 1 * charisma

\* ItemEntity.applyCharismaDiscount.
applyCharismaDiscount(basePrice, charisma) ==
    LET discount == 1 * charisma
    IN  IF discount >= basePrice THEN 1 ELSE basePrice - discount

\* ItemEntity.getPrice of the item with the given id.
getPrice(id, charisma, tierPrice) ==
    applyCharismaDiscount(getBasePrice(calculateTier(id), tierPrice), charisma)

\* GameContext.processMarketItems: one entry per raw element; NULL stands
\* for an element that yields no numeric id.
processMarketItems(marketItems, charisma, tierPrice) ==
    [i \in 1..Len(marketItems) |->
        LET id == marketItems[i]
        IN  IF Falsy(id) \/ id <= 0
            THEN [name |-> "Unknown Item", tier |-> 5, price |-> 1]
            ELSE [name |-> "Item", tier |-> calculateTier(id),
                  price |-> getPrice(id, charisma, tierPrice)]]

\* GameStateService.calculateFleeChance / calculateAmbushChance.
previewFleeChance(dex, level) ==
    IF dex >= level THEN 100 ELSE (dex * 100) \div level

previewAmbushChance(wis, level) ==
    IF wis >= level THEN 0 ELSE ((level - wis) * 100) \div level

\* A quotient n / d that the code does not round: its integer part and
\* the remainder of the division (frac = 0 iff the value is an integer).
Ratio(n, d) == [whole |-> n \div d, frac |-> n % d]

\* CombatSystem.calculateFleeChance / calculateAmbushChance:
\* (dexterity / adventurerLevel) * 100 is returned as computed.
calculateFleeChance(dexterity, adventurerLevel) ==
    IF dexterity >= adventurerLevel THEN Ratio(100, 1)
    ELSE Ratio(dexterity * 100, adventurerLevel)

calculateAmbushChance(wisdom, adventurerLevel) ==
    IF wisdom >= adventurerLevel THEN Ratio(0, 1)
    ELSE Ratio((adventurerLevel - wisdom) * 100, adventurerLevel)

(***************************************************************************)
(* Specification of the pure functions: Init draws one application (the    *)
(* function and its arguments) from the bounded sets, and the function's  *)
(* action applies it and records the result.                               *)
(***************************************************************************)
ItemIds == 0..101

RawMarketIds == {NULL, 0, 4, 5, 9, 20, 21, 101}

MarketLists ==
    UNION {[1..n -> RawMarketIds] : n \in 1..MaxMarket}

\* The inputs of one application; the result fields are filled by the action.
CalcInputs ==
    [fn : {"elementalAdjustedDamage"}, done : {FALSE}, base : 0..MaxBase,
     weapon : ItemTypes, armor : ItemTypes, out : {NULL}]
    \cup
    [fn : {"level"}, done : {FALSE}, xp : 0..MaxXp,
     entity : {NULL}, service : {NULL}]
    \cup
    [fn : {"getPrice"}, done : {FALSE}, id : ItemIds,
     charisma : 0..MaxCharisma, tierPrice : 1..MaxTierPrice,
     tier : {NULL}, out : {NULL}]
    \cup
    [fn : {"processMarketItems"}, done : {FALSE}, items : MarketLists,
     charisma : 0..MaxCharisma, tierPrice : 1..MaxTierPrice, out : {<<>>}]
    \cup
    [fn : {"previewChances", "combatSystemChances"}, done : {FALSE},
     xp : 0..MaxXp, dexterity : 0..MaxStat, wisdom : 0..MaxStat,
     level : {NULL}, flee : {NULL}, ambush : {NULL}]
    \cup
    [fn : {"battleContext"}, done : {FALSE},
     xp : 0..MaxXp, dexterity : 0..MaxStat, wisdom : 0..MaxStat,
     fleeChance : {NULL}, ambushChance : {NULL},
     shownFlee : {NULL}, shownAmbush : {NULL}]

InitCalc ==
    /\ AgentIdle
    /\ calc \in CalcInputs
    /\ PhaseIdle
    /\ CombatIdle
    /\ FeedIdle

ApplyElementalAdjustedDamage ==
    /\ calc.fn = "elementalAdjustedDamage" /\ ~calc.done
    /\ calc' = [calc EXCEPT !.done = TRUE,
                   !.out = elementalAdjustedDamage(calc.base, calc.weapon, calc.armor)]
    /\ UNCHANGED <<phaseVars, combatVars, feedVars, agentVars>>

\* The level of one xp value on both derivation paths.
ApplyLevel ==
    /\ calc.fn = "level" /\ ~calc.done
    /\ calc' = [calc EXCEPT !.done = TRUE,
                   !.entity = calculateLevel(calc.xp),
                   !.service = inlineLevel(calc.xp)]
    /\ UNCHANGED <<phaseVars, combatVars, feedVars, agentVars>>

ApplyGetPrice ==
    /\ calc.fn = "getPrice" /\ ~calc.done
    /\ calc' = [calc EXCEPT !.done = TRUE,
                   !.tier = calculateTier(calc.id),
                   !.out = getPrice(calc.id, calc.charisma, calc.tierPrice)]
    /\ UNCHANGED <<phaseVars, combatVars, feedVars, agentVars>>

ApplyProcessMarketItems ==
    /\ calc.fn = "processMarketItems" /\ ~calc.done
    /\ calc' = [calc EXCEPT !.done = TRUE,
                   !.out = processMarketItems(calc.items, calc.charisma, calc.tierPrice)]
    /\ UNCHANGED <<phaseVars, combatVars, feedVars, agentVars>>

\* GameStateService: the preview's chances for an adventurer whose level is
\* the inline level of its xp.
ApplyPreviewChances ==
    /\ calc.fn = "previewChances" /\ ~calc.done
    /\ LET level == inlineLevel(calc.xp)
       IN  calc' = [calc EXCEPT !.done = TRUE, !.level = level,
                       !.flee = Ratio(previewFleeChance(calc.dexterity, level), 1),
                       !.ambush = Ratio(previewAmbushChance(calc.wisdom, level), 1)]
    /\ UNCHANGED <<phaseVars, combatVars, feedVars, agentVars>>

\* CombatSystem: the chances for an adventurer whose level is
\* calculateLevel of its xp.
ApplyCombatSystemChances ==
    /\ calc.fn = "combatSystemChances" /\ ~calc.done
    /\ LET level == calculateLevel(calc.xp)
       IN  calc' = [calc EXCEPT !.done = TRUE, !.level = level,
                       !.flee = calculateFleeChance(calc.dexterity, level),
                       !.ambush = calculateAmbushChance(calc.wisdom, level)]
    /\ UNCHANGED <<phaseVars, combatVars, feedVars, agentVars>>

\* The number battleContext.loader prints before the '%' sign:
\* (chance * 100).toFixed(0), chance being an integer.
shownPercent(chance) == chance * 100

\* battleContext.loader for a game in combat: the combat preview of
\* mapRowToGameState, and the two chances of the combat summary.
BattleContextLoader ==
    /\ calc.fn = "battleContext" /\ ~calc.done
    /\ LET level == inlineLevel(calc.xp)
           fleeChance == previewFleeChance(calc.dexterity, level)
           ambushChance == previewAmbushChance(calc.wisdom, level)
       IN  calc' = [calc EXCEPT !.done = TRUE,
                       !.fleeChance = fleeChance, !.ambushChance = ambushChance,
                       !.shownFlee = shownPercent(fleeChance),
                       !.shownAmbush = shownPercent(ambushChance)]
    /\ UNCHANGED <<phaseVars, combatVars, feedVars, agentVars>>

NextCalc ==
    \/ BattleContextLoader
    \/ ApplyElementalAdjustedDamage
    \/ ApplyLevel
    \/ ApplyGetPrice
    \/ ApplyProcessMarketItems
    \/ ApplyPreviewChances
    \/ ApplyCombatSystemChances

SpecCalc == InitCalc /\ [][NextCalc]_vars

(***************************************************************************)
(* C3: elementalAdjustedDamage adds floor(base/2) for the three strong     *)
(* pairs, subtracts it for the three weak pairs, and returns base for the  *)
(* three neutral pairs and for any other type; the nine pairs split into   *)
(* exactly 3 strong, 3 weak and 3 neutral.                                 *)
(***************************************************************************)
StrongPairs == {<<"Magic", "Metal">>, <<"Blade", "Cloth">>, <<"Bludgeon", "Hide">>}

WeakPairs == {<<"Magic", "Hide">>, <<"Blade", "Metal">>, <<"Bludgeon", "Cloth">>}

C3_ElementalTable ==
    (calc.fn = "elementalAdjustedDamage" /\ calc.done) =>
        LET pair == <<calc.weapon, calc.armor>>
            half == calc.base \div 2
            pairs == AttackTypes \X ArmorTypes
        IN  /\ pair \in StrongPairs => calc.out = calc.base + half
            /\ pair \in WeakPairs => calc.out = calc.base - half
            /\ pair \notin StrongPairs \cup WeakPairs => calc.out = calc.base
            /\ Cardinality({q \in pairs : elementalAdjustedDamage(2, q[1], q[2]) = 3}) = 3
            /\ Cardinality({q \in pairs : elementalAdjustedDamage(2, q[1], q[2]) = 1}) = 3
            /\ Cardinality({q \in pairs : elementalAdjustedDamage(2, q[1], q[2]) = 2}) = 3

C3_Witness ==
    /\ calc.fn = "elementalAdjustedDamage" /\ calc.done
    /\ calc.base = 9 /\ calc.weapon = "Magic" /\ calc.armor = "Metal"
    /\ calc.out = 13

(***************************************************************************)
(* C6: for every xp >= 0, xp = 0 included, calculateLevel and the inline   *)
(* computation of GameStateService both return floor(sqrt(xp)), so the two *)
(* derivation paths give the same level.                                   *)
(***************************************************************************)
C6_LevelIsFloorSqrt ==
    (calc.fn = "level" /\ calc.done) =>
        /\ calc.entity * calc.entity <= calc.xp
        /\ (calc.entity + 1) * (calc.entity + 1) > calc.xp
        /\ calc.service * calc.service <= calc.xp
        /\ (calc.service + 1) * (calc.service + 1) > calc.xp
        /\ calc.entity = calc.service

(***************************************************************************)
(* C7: for tier 1..5 and charisma >= 0, getPrice is                        *)
(* max(1, (6 - tier) * TIER_PRICE - charisma), the base price strictly     *)
(* decreasing in the tier; every entry of processMarketItems, placeholder  *)
(* entries included, has price >= 1.                                       *)
(***************************************************************************)
C7_PriceFloor ==
    /\ (calc.fn = "getPrice" /\ calc.done) =>
          /\ calc.tier \in 1..5 =>
                calc.out = Max(1, (6 - calc.tier) * calc.tierPrice - calc.charisma)
          /\ \A t \in 1..4 :
                getBasePrice(t, calc.tierPrice) > getBasePrice(t + 1, calc.tierPrice)
          /\ calc.out >= 1
    /\ (calc.fn = "processMarketItems" /\ calc.done) =>
          /\ Len(calc.out) = Len(calc.items)
          /\ \A i \in 1..Len(calc.out) : calc.out[i].price >= 1

C7_Witness ==
    /\ calc.fn = "processMarketItems" /\ calc.done
    /\ Len(calc.items) = 2
    /\ calc.items[1] = 0 /\ calc.out[1].price = 1
    /\ calc.items[2] = 21 /\ calc.charisma > calc.tierPrice /\ calc.out[2].price = 1

(***************************************************************************)
(* C8: fleeChance is 100 if dexterity >= level, else                       *)
(* floor(dexterity * 100 / level); ambushChance is 0 if wisdom >= level,   *)
(* else floor((level - wisdom) * 100 / level); both are integers in        *)
(* [0, 100], in the combat preview and in the values CombatSystem returns  *)
(* with a simulation.                                                      *)
(***************************************************************************)
C8_ChancesAreFlooredIntegers ==
    (calc.fn \in {"previewChances", "combatSystemChances"} /\ calc.done /\ calc.level >= 1) =>
        /\ calc.flee.frac = 0
        /\ calc.ambush.frac = 0
        /\ calc.flee.whole = IF calc.dexterity >= calc.level THEN 100
                             ELSE (calc.dexterity * 100) \div calc.level
        /\ calc.ambush.whole = IF calc.wisdom >= calc.level THEN 0
                               ELSE ((calc.level - calc.wisdom) * 100) \div calc.level
        /\ calc.flee.whole \in 0..100
        /\ calc.ambush.whole \in 0..100

(***************************************************************************)
(* C30: the flee and ambush chances shown in the agent's battle context    *)
(* are percentages in [0, 100] equal to the fleeChance and ambushChance of *)
(* the combat preview of the same game state (a fleeChance of 75 is shown  *)
(* as 75%).                                                                *)
(***************************************************************************)
C30_ShownChances ==
    (calc.fn = "battleContext" /\ calc.done) =>
        /\ calc.shownFlee = calc.fleeChance
        /\ calc.shownAmbush = calc.ambushChance
        /\ calc.shownFlee \in 0..100
        /\ calc.shownAmbush \in 0..100

\* The preview's own chances are percentages in [0, 100].
C30_PreviewChances ==
    (calc.fn = "battleContext" /\ calc.done) =>
        /\ calc.fleeChance \in 0..100
        /\ calc.ambushChance \in 0..100

(***************************************************************************)
(* Combat mathematics: entities.                                           *)
(*                                                                         *)
(* An item is its raw data [id, xp] together with what the name tables     *)
(* yield for it: its base name and the prefix / suffix its specials seed   *)
(* selects (names are small integers, NULL when the table has no entry).   *)
(* A beast is its raw data [id, level, health, special2, special3].        *)
(***************************************************************************)
MIN_DAMAGE == 4

BEAST_MIN_DAMAGE == 2

PREFIXES_UNLOCK_GREATNESS == 19

SUFFIX_UNLOCK_GREATNESS == 15

BEAST_SPECIAL_NAME_LEVEL_UNLOCK == 19

ArmorSlots == <<"head", "chest", "waist", "hand", "foot">>

NoItem == [id |-> 0, xp |-> 0, name |-> "None", prefix |-> NULL, suffix |-> NULL]

\* AdventurerEntity.withEquipment / getEquippedItem: a slot holds an item
\* entity iff its raw id is non-zero.
Equipped(item) == ~Falsy(item.id)

\* ItemEntity.getLevel.
itemLevel(item) == calculateLevel(item.xp)

\* ItemEntity.isWeapon.
isWeapon(id) == id \in 9..16 \/ id \in 42..46 \/ id \in 72..76

\* calculateType taking the first chest piece of every band for a weapon.
calculateTypeWide(id) ==
    IF id <= 3 THEN "Necklace"
    ELSE IF id >= 4 /\ id <= 8 THEN "Ring"
    ELSE IF id >= 9 /\ id <= 41 THEN (IF id <= 17 THEN "Magic" ELSE "Cloth")
    ELSE IF id >= 42 /\ id <= 71 THEN (IF id <= 47 THEN "Blade" ELSE "Hide")
    ELSE IF id >= 72 THEN (IF id <= 77 THEN "Bludgeon" ELSE "Metal")
    ELSE "None"

\* ItemEntity.calculateType.
calculateType(id) ==
    IF id <= 3 THEN "Necklace"
    ELSE IF id >= 4 /\ id <= 8 THEN "Ring"
    ELSE IF id >= 9 /\ id <= 41 THEN (IF isWeapon(id) THEN "Magic" ELSE "Cloth")
    ELSE IF id >= 42 /\ id <= 71 THEN (IF isWeapon(id) THEN "Blade" ELSE "Hide")
    ELSE IF id >= 72 THEN (IF isWeapon(id) THEN "Bludgeon" ELSE "Metal")
    ELSE "None"

\* ItemEntity.withSpecials and format().specials: specials exist only from
\* the prefix unlock level on.
itemSpecials(item) ==
    IF itemLevel(item) >= PREFIXES_UNLOCK_GREATNESS
    THEN [some |-> TRUE, prefix |-> item.prefix,
          suffix |-> IF itemLevel(item) >= SUFFIX_UNLOCK_GREATNESS
                     THEN item.suffix ELSE NULL]
    ELSE [some |-> FALSE, prefix |-> NULL, suffix |-> NULL]

\* getTier with every tier band starting one id late.
getTierShifted(id) ==
    IF id \in 2..6 \/ id \in 27..31 \/ id \in 52..56 THEN 1
    ELSE IF id \in 7..11 \/ id \in 32..36 \/ id \in 57..61 THEN 2
    ELSE IF id \in 12..16 \/ id \in 37..41 \/ id \in 62..66 THEN 3
    ELSE IF id \in 17..21 \/ id \in 42..46 \/ id \in 67..71 THEN 4
    ELSE 5

\* BeastEntity.getTier (isT1..isT4).
getTier(id) ==
    IF id \in 1..5 \/ id \in 26..30 \/ id \in 51..55 THEN 1
    ELSE IF id \in 6..10 \/ id \in 31..35 \/ id \in 56..60 THEN 2
    ELSE IF id \in 11..15 \/ id \in 36..40 \/ id \in 61..65 THEN 3
    ELSE IF id \in 16..20 \/ id \in 41..45 \/ id \in 66..70 THEN 4
    ELSE 5

\* BeastEntity.getArmorType.
getArmorType(id) ==
    IF id >= 1 /\ id <= 25 THEN "Cloth"
    ELSE IF id >= 26 /\ id <= 50 THEN "Hide"
    ELSE IF id >= 51 /\ id <= 75 THEN "Metal"
    ELSE "None"

\* GameContext.getBeastAttackType / CombatSystem.getBeastAttackType.
getBeastAttackType(id) ==
    IF id >= 1 /\ id <= 25 THEN "Magic"
    ELSE IF id >= 26 /\ id <= 50 THEN "Blade"
    ELSE IF id >= 51 /\ id <= 75 THEN "Bludgeon"
    ELSE "None"

\* getSpecials without the level test.
getSpecialsAnyLevel(b) ==
    [prefix |-> IF Falsy(b.special2) THEN NULL ELSE b.special2,
     suffix |-> IF Falsy(b.special3) THEN NULL ELSE b.special3]

\* BeastEntity.getSpecials: BEAST_NAME_PREFIXES[special2] || null.
getSpecials(b) ==
    IF b.level < BEAST_SPECIAL_NAME_LEVEL_UNLOCK
    THEN [prefix |-> NULL, suffix |-> NULL]
    ELSE [prefix |-> IF Falsy(b.special2) THEN NULL ELSE b.special2,
          suffix |-> IF Falsy(b.special3) THEN NULL ELSE b.special3]

calculateDamageVsBeastUnfloored(a, b) ==
    LET weapon == a.equipment.weapon
        ring == a.equipment.ring
        baseAttack == itemLevel(weapon) * (6 - calculateTier(weapon.id))
        elementalDamage == elementalAdjustedDamage(baseAttack, calculateType(weapon.id),
                                                   getArmorType(b.id))
        strengthBonus == IF a.stats.strength > 0
                         THEN (elementalDamage * a.stats.strength * 10) \div 100 ELSE 0
        beastArmorValue == b.level * (6 - getTier(b.id))
    IN  IF ~Equipped(weapon)
        THEN [baseDamage |-> MIN_DAMAGE, criticalDamage |-> MIN_DAMAGE * 2]
        ELSE [baseDamage |-> (elementalDamage + strengthBonus) - beastArmorValue,
              criticalDamage |-> (elementalDamage + strengthBonus + elementalDamage)
                                 - beastArmorValue]

\* AdventurerEntity.calculateDamageVsBeast.
calculateDamageVsBeast(a, b) ==
    LET weapon == a.equipment.weapon
        ring == a.equipment.ring
        baseAttack == itemLevel(weapon) * (6 - calculateTier(weapon.id))
        elementalDamage == elementalAdjustedDamage(baseAttack, calculateType(weapon.id),
                                                   getArmorType(b.id))
        strengthBonus == IF a.stats.strength > 0
                         THEN (elementalDamage * a.stats.strength * 10) \div 100 ELSE 0
        weaponSpecials == itemSpecials(weapon)
        beastSpecials == getSpecials(b)
        prefixBonus == IF weaponSpecials.some /\ weaponSpecials.prefix # NULL
                          /\ weaponSpecials.prefix = beastSpecials.prefix
                       THEN elementalDamage * 8 ELSE 0
        suffixBonus == IF weaponSpecials.some /\ weaponSpecials.suffix # NULL
                          /\ weaponSpecials.suffix = beastSpecials.suffix
                       THEN elementalDamage * 2 ELSE 0
        matched == prefixBonus + suffixBonus
        specialBonus == IF Equipped(ring) /\ ring.name = "Platinum Ring" /\ matched > 0
                        THEN matched + (matched * 3 * itemLevel(ring)) \div 100
                        ELSE matched
        beastArmorValue == b.level * (6 - getTier(b.id))
        critBonus == IF Equipped(ring) /\ ring.name = "Titanium Ring"
                     THEN elementalDamage + (elementalDamage * 3 * itemLevel(ring)) \div 100
                     ELSE elementalDamage
    IN  IF ~Equipped(weapon)
        THEN [baseDamage |-> MIN_DAMAGE, criticalDamage |-> MIN_DAMAGE * 2,
              elementalBonus |-> 0, strengthBonus |-> 0, specialBonus |-> 0]
        ELSE [baseDamage |->
                  Max(MIN_DAMAGE,
                      (elementalDamage + strengthBonus + specialBonus) - beastArmorValue),
              criticalDamage |->
                  Max(MIN_DAMAGE,
                      (elementalDamage + strengthBonus + specialBonus + critBonus)
                      - beastArmorValue),
              elementalBonus |-> elementalDamage - baseAttack,
              strengthBonus |-> strengthBonus,
              specialBonus |-> specialBonus]

\* The neck reduction test of calculateDamageAgainstArmor and
\* CombatSystem.neckReductionApplies.
neckReductionApplies(armorType, neckName) ==
    \/ (armorType = "Cloth" /\ neckName = "Amulet")
    \/ (armorType = "Hide" /\ neckName = "Pendant")
    \/ (armorType = "Metal" /\ neckName = "Necklace")

\* GameContext.calculateDamageAgainstArmor, and
\* CombatSystem.calculateBeastDamageAgainstArmor, which is the same code.
calculateDamageAgainstArmor(attackType, b, a, armor) ==
    LET armorType == calculateType(armor.id)
        elemental == elementalAdjustedDamage(b.level * (6 - getTier(b.id)),
                                             attackType, armorType)
        armorLevel == itemLevel(armor)
        beastSpecials == getSpecials(b)
        sp == itemSpecials(armor)
        named == sp.some /\ (beastSpecials.prefix # NULL \/ beastSpecials.suffix # NULL)
        afterSuffix == IF named /\ sp.suffix # NULL /\ beastSpecials.suffix # NULL
                          /\ sp.suffix = beastSpecials.suffix
                       THEN elemental * 2 ELSE elemental
        afterPrefix == IF named /\ sp.prefix # NULL /\ beastSpecials.prefix # NULL
                          /\ sp.prefix = beastSpecials.prefix
                       THEN afterSuffix * 8 ELSE afterSuffix
        armorValue == armorLevel * (6 - calculateTier(armor.id))
        reduced == Max(BEAST_MIN_DAMAGE, afterPrefix - armorValue)
        neck == a.equipment.neck
        afterNeck == IF Equipped(neck) /\ neckReductionApplies(armorType, neck.name)
                     THEN reduced - (armorValue * itemLevel(neck) * 3) \div 100
                     ELSE reduced
    IN  Max(BEAST_MIN_DAMAGE, afterNeck)

\* Sum of f over the five armor slots.
SumSlots(f(_)) == f("head") + f("chest") + f("waist") + f("hand") + f("foot")

\* A quotient rounded up even when the division is exact.
CeilDivPastExact(n, d) == n \div d + 1

\* Math.ceil(n / d) for positive d.
CeilDiv(n, d) == (n + d - 1) \div d

\* CombatSystem.calculateBeastDamage.  maxDamage = level * (6 - tier) * 1.5
\* is a multiple of one half, so the sums are kept doubled.
calculateBeastDamage(a, b) ==
    LET maxDamage2 == b.level * (6 - getTier(b.id)) * 3
        defense2(slot) ==
            IF ~Equipped(a.equipment[slot]) THEN 0
            ELSE Max(0, maxDamage2
                        - 2 * calculateDamageAgainstArmor(getBeastAttackType(b.id), b, a,
                                                          a.equipment[slot]))
    IN  Max(BEAST_MIN_DAMAGE, (maxDamage2 - SumSlots(defense2)) \div 2)

\* calculateBeastDamagePerSlot without the `continue` of an unequipped slot:
\* the slot's floor(maxDamage) is counted as armor.
calculateBeastDamagePerSlotNoContinue(a, b) ==
    LET maxDamage2 == b.level * (6 - getTier(b.id)) * 3
        damage(slot) ==
            IF ~Equipped(a.equipment[slot]) THEN maxDamage2 \div 2
            ELSE calculateDamageAgainstArmor(getBeastAttackType(b.id), b, a,
                                             a.equipment[slot])
        defense2(slot) == Max(0, maxDamage2 - 2 * damage(slot))
        protection == IF maxDamage2 <= 2 * 2 THEN 100
                      ELSE (SumSlots(defense2) * 100)
                           \div ((maxDamage2 - 2 * BEAST_MIN_DAMAGE) * 5)
    IN  [perSlot |-> [slot \in {"head", "chest", "waist", "hand", "foot"} |-> damage(slot)],
         maxDamage |-> maxDamage2 \div 2,
         protectionPercent |-> Max(0, Min(100, protection))]

\* GameContext.calculateBeastDamagePerSlot.
calculateBeastDamagePerSlot(a, b) ==
    LET maxDamage2 == b.level * (6 - getTier(b.id)) * 3
        damage(slot) ==
            IF ~Equipped(a.equipment[slot]) THEN maxDamage2 \div 2
            ELSE calculateDamageAgainstArmor(getBeastAttackType(b.id), b, a,
                                             a.equipment[slot])
        defense2(slot) ==
            IF ~Equipped(a.equipment[slot]) THEN 0
            ELSE Max(0, maxDamage2 - 2 * damage(slot))
        protection == IF maxDamage2 <= 2 * 2 THEN 100
                      ELSE (SumSlots(defense2) * 100)
                           \div ((maxDamage2 - 2 * BEAST_MIN_DAMAGE) * 5)
    IN  [perSlot |-> [slot \in {"head", "chest", "waist", "hand", "foot"} |-> damage(slot)],
         maxDamage |-> maxDamage2 \div 2,
         protectionPercent |-> Max(0, Min(100, protection))]

\* Largest value of f over the five armor slots.
MaxSlots(f(_)) == Max(Max(Max(f("head"), f("chest")), Max(f("waist"), f("hand"))), f("foot"))

(***************************************************************************)
(* Combat mathematics: engine.  GameStateService delegates the player and  *)
(* beast damage to utils/game of the engine package; these two functions   *)
(* follow the combat formulas of the specification (section 4.2), with the *)
(* item level floor(sqrt(xp)).                                             *)
(***************************************************************************)
utilsItemLevel(item) == FloorSqrt(item.xp)

utilsItemSpecials(item) ==
    [prefix |-> IF utilsItemLevel(item) >= PREFIXES_UNLOCK_GREATNESS
                THEN item.prefix ELSE NULL,
     suffix |-> IF utilsItemLevel(item) >= SUFFIX_UNLOCK_GREATNESS
                THEN item.suffix ELSE NULL]

\* utils/game calculateCombatStats of the engine: player damage vs beast.
calculateCombatStats(a, b) ==
    LET weapon == a.equipment.weapon
        ring == a.equipment.ring
        baseAttack == utilsItemLevel(weapon) * (6 - calculateTier(weapon.id))
        elementalDamage == elementalAdjustedDamage(baseAttack, calculateType(weapon.id),
                                                   getArmorType(b.id))
        strengthBonus == (elementalDamage * a.stats.strength * 10) \div 100
        weaponSpecials == utilsItemSpecials(weapon)
        beastSpecials == getSpecials(b)
        matched == (IF weaponSpecials.prefix # NULL
                       /\ weaponSpecials.prefix = beastSpecials.prefix
                    THEN elementalDamage * 8 ELSE 0)
                   + (IF weaponSpecials.suffix # NULL
                         /\ weaponSpecials.suffix = beastSpecials.suffix
                      THEN elementalDamage * 2 ELSE 0)
        specialBonus == IF Equipped(ring) /\ ring.name = "Platinum Ring"
                        THEN matched + (matched * 3 * utilsItemLevel(ring)) \div 100
                        ELSE matched
        beastArmorValue == b.level * (6 - getTier(b.id))
        critBonus == IF Equipped(ring) /\ ring.name = "Titanium Ring"
                     THEN elementalDamage
                          + (elementalDamage * 3 * utilsItemLevel(ring)) \div 100
                     ELSE elementalDamage
    IN  IF ~Equipped(weapon)
        THEN [baseDamage |-> MIN_DAMAGE, criticalDamage |-> MIN_DAMAGE,
              critChance |-> a.stats.luck]
        ELSE [baseDamage |->
                  Max(MIN_DAMAGE,
                      (elementalDamage + strengthBonus + specialBonus) - beastArmorValue),
              criticalDamage |->
                  Max(MIN_DAMAGE,
                      (elementalDamage + strengthBonus + specialBonus + critBonus)
                      - beastArmorValue),
              critChance |-> a.stats.luck]

\* utils/game calculateBeastDamage of the engine: beast damage against one
\* armor item.
computeBeastDamage(b, a, armor) ==
    LET armorType == calculateType(armor.id)
        elemental == elementalAdjustedDamage(b.level * (6 - getTier(b.id)),
                                             getBeastAttackType(b.id), armorType)
        beastSpecials == getSpecials(b)
        sp == utilsItemSpecials(armor)
        afterSuffix == IF sp.suffix # NULL /\ sp.suffix = beastSpecials.suffix
                       THEN elemental * 2 ELSE elemental
        afterPrefix == IF sp.prefix # NULL /\ sp.prefix = beastSpecials.prefix
                       THEN afterSuffix * 8 ELSE afterSuffix
        armorValue == utilsItemLevel(armor) * (6 - calculateTier(armor.id))
        neck == a.equipment.neck
        reduction == IF Equipped(neck) /\ neckReductionApplies(armorType, neck.name)
                     THEN (armorValue * utilsItemLevel(neck) * 3) \div 100 ELSE 0
    IN  [baseDamage |-> Max(BEAST_MIN_DAMAGE, afterPrefix - armorValue - reduction)]

\* estimateCombatOutcome deciding a tie of the two round counts against the
\* adventurer.
estimateCombatOutcomeStrict(adventurerHealth, beastHealth, averagePlayerDamage100, beastDamage) ==
    LET adjusted100 == Max(100, averagePlayerDamage100)
        roundsToKillBeast == Max(1, CeilDiv(beastHealth * 100, adjusted100))
        roundsToKillAdventurer == CeilDiv(adventurerHealth, beastDamage)
    IN  IF beastDamage <= 0 \/ roundsToKillBeast < roundsToKillAdventurer
        THEN [win |-> TRUE, rounds |-> roundsToKillBeast,
              damageTaken |-> Max(0, roundsToKillBeast - 1) * beastDamage]
        ELSE [win |-> FALSE, rounds |-> roundsToKillAdventurer, damageTaken |-> 0]

\* GameStateService.estimateCombatOutcome; averagePlayerDamage is the
\* quotient num / 100.
estimateCombatOutcome(adventurerHealth, beastHealth, averagePlayerDamage100, beastDamage) ==
    LET adjusted100 == Max(100, averagePlayerDamage100)
        roundsToKillBeast == Max(1, CeilDiv(beastHealth * 100, adjusted100))
        roundsToKillAdventurer == CeilDiv(adventurerHealth, beastDamage)
    IN  IF beastDamage <= 0 \/ roundsToKillBeast <= roundsToKillAdventurer
        THEN [win |-> TRUE, rounds |-> roundsToKillBeast,
              damageTaken |-> Max(0, roundsToKillBeast - 1) * beastDamage]
        ELSE [win |-> FALSE, rounds |-> roundsToKillAdventurer, damageTaken |-> 0]

(***************************************************************************)
(* Collectable traits.  A beast seed is a string: [text, parsable, high,   *)
(* low], text being FALSE for a missing or empty seed, parsable telling    *)
(* whether BigInt accepts the string, and high and low the two 32-bit      *)
(* halves of the number it denotes.  A BigInt is [high, low].              *)
(***************************************************************************)
NoSeed == [text |-> FALSE, parsable |-> FALSE, high |-> 0, low |-> 0]

SeedText(high, low) == [text |-> TRUE, parsable |-> TRUE, high |-> high, low |-> low]

Unparsable == [text |-> TRUE, parsable |-> FALSE, high |-> 0, low |-> 0]

ZeroBigInt == [high |-> 0, low |-> 0]

\* The seed and isCollectable members GameStateService.parseBeast gives a
\* beast: `seed || '0x0'` and Boolean(is_collectable).
parseBeastSeed(seed) == IF seed.text THEN seed ELSE SeedText(0, 0)

parseBeastIsCollectable(is_collectable) == ~Falsy(is_collectable)

\* The seed and isCollectable members of GameStateService.toUtilsBeast:
\* BigInt(seed), 0n when the seed is missing or BigInt throws.
toUtilsBeast(b) ==
    [seed |-> IF b.seed.text /\ b.seed.parsable
              THEN [high |-> b.seed.high, low |-> b.seed.low]
              ELSE ZeroBigInt,
     isCollectable |-> b.isCollectable]

\* getCollectableTraits of the engine's utils/beast.
getCollectableTraits(seed) ==
    [shiny |-> (seed.low % 10000) < 500, animated |-> (seed.high % 10000) < 500]

\* The collectable member of the preview, with the traits computed whether
\* or not the beast is eligible.
previewCollectableAlways(utilsBeast) ==
    LET collectableEligible == utilsBeast.isCollectable /\ utilsBeast.seed # ZeroBigInt
        collectableTraits == getCollectableTraits(utilsBeast.seed)
    IN  [shiny |-> collectableTraits.shiny, animated |-> collectableTraits.animated,
         eligible |-> collectableEligible]

\* The collectable member of GameStateService.calculateCombatPreview.
previewCollectable(utilsBeast) ==
    LET collectableEligible == utilsBeast.isCollectable /\ utilsBeast.seed # ZeroBigInt
        collectableTraits == IF collectableEligible
                             THEN getCollectableTraits(utilsBeast.seed)
                             ELSE [shiny |-> FALSE, animated |-> FALSE]
    IN  [shiny |-> collectableTraits.shiny, animated |-> collectableTraits.animated,
         eligible |-> collectableEligible]

\* GameStateService.calculateCombatPreview (Math.round of an integer is the
\* integer).
calculateCombatPreview(a, b) ==
    LET combatStats == calculateCombatStats(a, b)
        baseDamage == Max(1, combatStats.baseDamage)
        criticalDamage == Max(baseDamage, combatStats.criticalDamage)
        critChance == Min(100, Max(0, combatStats.critChance))
        beastBaseAttack == b.level * (6 - getTier(b.id))
        slotDamage(slot) ==
            IF Equipped(a.equipment[slot])
            THEN Max(BEAST_MIN_DAMAGE, computeBeastDamage(b, a, a.equipment[slot]).baseDamage)
            ELSE Max(BEAST_MIN_DAMAGE, (beastBaseAttack * 3) \div 2)
        totalBeastDamage == SumSlots(slotDamage)
        highestBeastDamage == Max(BEAST_MIN_DAMAGE, MaxSlots(slotDamage))
        \* Math.round(total / 5) = floor(total / 5 + 1/2)
        averageBeastDamage == Max(BEAST_MIN_DAMAGE, (2 * totalBeastDamage + 5) \div 10)
        averagePlayerDamage100 ==
            Max(100, 100 * baseDamage + critChance * (criticalDamage - baseDamage))
        level == inlineLevel(a.xp)
    IN  [perSlot |-> [slot \in {"head", "chest", "waist", "hand", "foot"} |-> slotDamage(slot)],
         playerDamage |-> [base |-> baseDamage, critical |-> criticalDamage],
         beastDamage |-> [max |-> highestBeastDamage],
         fleeChance |-> previewFleeChance(a.stats.dexterity, level),
         ambushChance |-> previewAmbushChance(a.stats.wisdom, level),
         collectable |-> previewCollectable(toUtilsBeast(b)),
         outcome |-> estimateCombatOutcome(a.health, b.health,
                                           averagePlayerDamage100, averageBeastDamage)]

(***************************************************************************)
(* Specification of the combat requests.  Init draws the adventurer's      *)
(* loadout and the beast; each action is one request that derives combat   *)
(* numbers from them: POST /combat/simulate (GameContext.simulateCombat),  *)
(* the damagePreview of GameContext.getGameContext, and the combatPreview  *)
(* of GameStateService.mapRowToGameState.                                  *)
(***************************************************************************)
Item(id, xp, name, prefix, suffix) ==
    [id |-> id, xp |-> xp, name |-> name, prefix |-> prefix, suffix |-> suffix]

GhostWand == Item(9, 9, "Ghost Wand", NULL, NULL)

\* The armor of the README example, all of level 3.
ExampleArmor ==
    [head |-> Item(86, 9, "Helm", NULL, NULL),
     chest |-> Item(21, 9, "Shirt", NULL, NULL),
     waist |-> Item(30, 9, "Linen Sash", NULL, NULL),
     hand |-> Item(71, 9, "Leather Gloves", NULL, NULL),
     foot |-> Item(32, 9, "Divine Slippers", NULL, NULL)]

\* Tier-1 metal armor of level 20 carrying specials.
NamedArmor ==
    [head |-> Item(82, 400, "Item", 1, 1),
     chest |-> Item(77, 400, "Item", 1, 1),
     waist |-> Item(87, 400, "Item", 2, 1),
     hand |-> Item(97, 400, "Item", 1, 2),
     foot |-> Item(92, 400, "Item", 2, 2)]

ArmorLoadouts ==
    {[slot \in {"head", "chest", "waist", "hand", "foot"} |->
          IF slot \in worn THEN ExampleArmor[slot] ELSE NoItem] :
       worn \in SUBSET {"head", "chest", "waist", "hand", "foot"}}
    \cup {NamedArmor}

Weapons == {NoItem, GhostWand, Item(42, 400, "Item", 1, 1)}

Rings == {NoItem, Item(6, 100, "Platinum Ring", NULL, NULL),
          Item(7, 100, "Titanium Ring", NULL, NULL)}

Necks == {NoItem, Item(3, 100, "Amulet", NULL, NULL)}

Strengths == {0, 4}

Lucks == {0, 50, 100}

Adventurer(weapon, armor, neck, ring, strength, luck) ==
    [loaded |-> TRUE, health |-> 99, xp |-> 19,
     stats |-> [strength |-> strength, dexterity |-> 3, wisdom |-> 1, luck |-> luck],
     equipment |-> [weapon |-> weapon, head |-> armor.head, chest |-> armor.chest,
                    waist |-> armor.waist, hand |-> armor.hand, foot |-> armor.foot,
                    neck |-> neck, ring |-> ring]]

Adventurers ==
    {Adventurer(w, ar, n, r, st, l) :
        w \in Weapons, ar \in ArmorLoadouts, n \in Necks, r \in Rings,
        st \in Strengths, l \in Lucks}

Beast(id, level, health, special2, special3) ==
    [some |-> TRUE, id |-> id, level |-> level, health |-> health,
     special2 |-> special2, special3 |-> special3,
     seed |-> SeedText(0, 0), isCollectable |-> FALSE]

Beasts ==
    {Beast(WolfId, 12, 21, 0, 0),      \* the Wolf of the README example
     Beast(WolfId, 1, 1, 0, 0),        \* IndexerClient.getBeast without a row
     Beast(1, 20, 50, 1, 1),
     Beast(30, 19, 200, 2, 1),
     Beast(75, 3, 4, 0, 0)}

InitCombat ==
    /\ AgentIdle
    /\ adv \in Adventurers
    /\ beast \in Beasts
    /\ preview = NoPreview
    /\ calc = CalcIdle
    /\ PhaseIdle
    /\ FeedIdle

\* simulateRound in which the beast strikes back in every round.
simulateRoundAlwaysStruck(a, b, isCritical, damage, beastDamage) ==
    LET finalDamage == IF isCritical THEN damage.criticalDamage ELSE damage.baseDamage
        remainingHealth == Max(0, b.health - finalDamage)
        outcome == IF remainingHealth = 0 THEN "victory" ELSE "ongoing"
        adventurerHealth == Max(0, OrZero(a.health) - beastDamage)
    IN  [playerBase |-> damage.baseDamage,
         playerCritical |-> damage.criticalDamage,
         isCritical |-> isCritical,
         total |-> finalDamage,
         defenderHealth |-> remainingHealth,
         outcome |-> outcome,
         rewards |-> outcome = "victory",
         beastAttack |->
             [some |-> TRUE, damage |-> beastDamage,
              remainingHealth |-> adventurerHealth,
              outcome |-> IF adventurerHealth = 0 THEN "defeat" ELSE "ongoing"],
         roundOutcome |->
             IF outcome = "victory" THEN "victory"
             ELSE IF adventurerHealth = 0 THEN "defeat" ELSE "ongoing"]

\* CombatSystem.simulateRound: simulate, then the beast's attack while the
\* fight is ongoing.  Of the rewards (calculateRewards() on a victory,
\* undefined otherwise) only the presence is kept.
simulateRound(a, b, isCritical, damage, beastDamage) ==
    LET finalDamage == IF isCritical THEN damage.criticalDamage ELSE damage.baseDamage
        remainingHealth == Max(0, b.health - finalDamage)
        outcome == IF remainingHealth = 0 THEN "victory" ELSE "ongoing"
        adventurerHealth == Max(0, OrZero(a.health) - beastDamage)
    IN  [playerBase |-> damage.baseDamage,
         playerCritical |-> damage.criticalDamage,
         isCritical |-> isCritical,
         total |-> finalDamage,
         defenderHealth |-> remainingHealth,
         outcome |-> outcome,
         rewards |-> outcome = "victory",
         beastAttack |->
             IF outcome = "ongoing"
             THEN [some |-> TRUE, damage |-> beastDamage,
                   remainingHealth |-> adventurerHealth,
                   outcome |-> IF adventurerHealth = 0 THEN "defeat" ELSE "ongoing"]
             ELSE [some |-> FALSE, damage |-> 0,
                   remainingHealth |-> OrZero(a.health), outcome |-> "none"],
         roundOutcome |->
             IF outcome = "victory" THEN "victory"
             ELSE IF adventurerHealth = 0 THEN "defeat" ELSE "ongoing"]

\* GameContext.simulateCombat: the round, and the two chances.
simulateCombat(a, b, isCritical) ==
    [op |-> "simulate",
     round |-> simulateRound(a, b, isCritical, calculateDamageVsBeast(a, b),
                             calculateBeastDamage(a, b)),
     fleeChance |-> calculateFleeChance(a.stats.dexterity, calculateLevel(a.xp)),
     ambushChance |-> calculateAmbushChance(a.stats.wisdom, calculateLevel(a.xp))]

\* POST /combat/simulate.  The hit is critical when
\* Math.random() * 100 < luck.
SimulateCombat ==
    /\ adv.loaded /\ preview = NoPreview
    /\ \E isCritical \in BOOLEAN :
          /\ isCritical => adv.stats.luck > 0
          /\ ~isCritical => adv.stats.luck < 100
          /\ preview' = simulateCombat(adv, beast, isCritical)
    /\ UNCHANGED <<phaseVars, calc, adv, beast, feedVars, agentVars>>

\* GameContext.getGameContext for an adventurer in battle with this beast:
\* the damagePreview (damage of the player, incoming damage per slot).
GameContextPreview ==
    /\ adv.loaded /\ preview = NoPreview
    /\ preview' = [op |-> "entity",
                   damage |-> calculateDamageVsBeast(adv, beast),
                   incoming |-> calculateBeastDamagePerSlot(adv, beast)]
    /\ UNCHANGED <<phaseVars, calc, adv, beast, feedVars, agentVars>>

\* GameStateService.mapRowToGameState for a row with this adventurer and
\* beast: the combatPreview.
EnginePreview ==
    /\ adv.loaded /\ preview = NoPreview
    /\ preview' = [op |-> "engine",
                   combatPreview |-> calculateCombatPreview(adv, beast)]
    /\ UNCHANGED <<phaseVars, calc, adv, beast, feedVars, agentVars>>

(***************************************************************************)
(* What a response reports.  SimpleContextEngine renders                   *)
(* damagePreview.baseDamage, .criticalDamage and .incoming.maxDamage (each *)
(* `|| 0`); ContextEngine renders combatPreview.playerDamage.base,         *)
(* .critical, beastDamage.max and fleeChance.                              *)
(***************************************************************************)
playerBase ==
    CASE preview.op = "simulate" -> preview.round.playerBase
      [] preview.op = "entity" -> OrZero(preview.damage.baseDamage)
      [] preview.op = "engine" -> OrZero(preview.combatPreview.playerDamage.base)

playerCritical ==
    CASE preview.op = "simulate" -> preview.round.playerCritical
      [] preview.op = "entity" -> OrZero(preview.damage.criticalDamage)
      [] preview.op = "engine" -> OrZero(preview.combatPreview.playerDamage.critical)

beastMax ==
    CASE preview.op = "entity" -> OrZero(preview.incoming.maxDamage)
      [] preview.op = "engine" -> OrZero(preview.combatPreview.beastDamage.max)

perSlot ==
    CASE preview.op = "entity" -> preview.incoming.perSlot
      [] preview.op = "engine" -> preview.combatPreview.perSlot

fleeChance ==
    CASE preview.op = "simulate" -> preview.fleeChance
      [] preview.op = "engine" -> Ratio(preview.combatPreview.fleeChance, 1)

NextCombat == SimulateCombat \/ GameContextPreview \/ EnginePreview

SpecCombat == InitCombat /\ [][NextCombat]_vars

(***************************************************************************)
(* C4: for every loaded adventurer (weapon or none, any strength, any      *)
(* ring) and every beast, calculateDamageVsBeast returns baseDamage >= 4   *)
(* and criticalDamage >= 4, so the damage CombatSystem.simulate applies is *)
(* >= 4.                                                                   *)
(***************************************************************************)
C4_PlayerDamageFloor ==
    preview.op \in {"simulate", "entity"} =>
        /\ playerBase >= MIN_DAMAGE
        /\ playerCritical >= MIN_DAMAGE
        /\ preview.op = "simulate" =>
              /\ preview.round.total >= MIN_DAMAGE
              /\ preview.round.defenderHealth <= Max(0, beast.health - MIN_DAMAGE)

C4_Witness ==
    /\ preview.op = "simulate"
    /\ Equipped(adv.equipment.weapon)
    /\ beast.level = 12 /\ adv.stats.strength = 4
    /\ ~preview.round.isCritical
    /\ preview.round.total = MIN_DAMAGE
    /\ preview.round.defenderHealth = 17

(***************************************************************************)
(* C23: in one simulated round the adventurer acts first and the beast     *)
(* attacks only if it survived: beastAttack is present iff the attack left *)
(* the beast's health > 0; roundOutcome is victory iff the beast's         *)
(* remaining health is 0, defeat iff the beast survived and the            *)
(* adventurer's remaining health is 0, ongoing otherwise; rewards are      *)
(* present iff the outcome is victory; both remaining healths are >= 0.    *)
(***************************************************************************)
C23_RoundOrder ==
    preview.op = "simulate" =>
        LET r == preview.round
            beastLeft == r.defenderHealth
            struck == r.beastAttack.some
        IN  /\ beastLeft = Max(0, beast.health - r.total)
            /\ struck <=> beastLeft > 0
            /\ r.roundOutcome = "victory" <=> beastLeft = 0
            /\ r.roundOutcome = "defeat"
                  <=> (beastLeft > 0 /\ r.beastAttack.remainingHealth = 0)
            /\ r.roundOutcome = "ongoing"
                  <=> (beastLeft > 0 /\ r.beastAttack.remainingHealth > 0)
            /\ r.rewards <=> r.roundOutcome = "victory"
            /\ beastLeft >= 0
            /\ struck => /\ r.beastAttack.remainingHealth >= 0
                         /\ r.beastAttack.remainingHealth
                               = Max(0, adv.health - r.beastAttack.damage)

\* The beast survives the attack and its blow takes the adventurer's last
\* health: the round is a defeat without rewards.
C23_Witness ==
    /\ preview.op = "simulate"
    /\ preview.round.defenderHealth > 0
    /\ preview.round.beastAttack.some
    /\ preview.round.beastAttack.damage >= adv.health
    /\ preview.round.beastAttack.remainingHealth = 0
    /\ preview.round.roundOutcome = "defeat"
    /\ ~preview.round.rewards

(***************************************************************************)
(* C5: for every beast of level >= 1 and every loadout, each of the five   *)
(* per-slot incoming damage values is >= 2, equipped or not, in            *)
(* calculateBeastDamagePerSlot and in calculateCombatPreview.              *)
(***************************************************************************)
C5_PerSlotFloor ==
    (preview.op \in {"entity", "engine"} /\ beast.level >= 1) =>
        \A slot \in {"head", "chest", "waist", "hand", "foot"} :
            perSlot[slot] >= BEAST_MIN_DAMAGE

(***************************************************************************)
(* C9: the README example (adventurer health 99, xp 19, strength 4,        *)
(* dexterity 3, luck 0, Ghost Wand and the five level-3 armor pieces, no   *)
(* neck or ring, against the Wolf of level 12 and health 21) gives player  *)
(* base damage 4, critical damage 7, beast damage max 15 and flee chance   *)
(* 75 on every path that reports them.                                     *)
(***************************************************************************)
GoldenAdventurer == Adventurer(GhostWand, ExampleArmor, NoItem, NoItem, 4, 0)

GoldenBeast == Beast(WolfId, 12, 21, 0, 0)

C9_GoldenPreview ==
    (adv = GoldenAdventurer /\ beast = GoldenBeast /\ preview # NoPreview) =>
        /\ playerBase = 4
        /\ playerCritical = 7
        /\ preview.op \in {"entity", "engine"} => beastMax = 15
        /\ preview.op \in {"simulate", "engine"} => fleeChance = Ratio(75, 1)

(***************************************************************************)
(* C25: in the incoming-damage preview incoming.maxDamage bounds every     *)
(* per-slot value: for every beast of level >= 1 and every loadout,        *)
(* perSlot[s] <= maxDamage for head, chest, waist, hand and foot, also     *)
(* when armor names match the beast's prefix or suffix.                    *)
(***************************************************************************)
C25_MaxBoundsPerSlot ==
    (preview.op = "entity" /\ beast.level >= 1) =>
        \A slot \in {"head", "chest", "waist", "hand", "foot"} :
            preview.incoming.perSlot[slot] <= preview.incoming.maxDamage

\* The same bound for armor none of whose names matches the beast's, against
\* a beast whose maximum is at least the minimum damage.
C25_WithoutNameMatch ==
    (preview.op = "entity" /\ beast.level >= 1
        /\ preview.incoming.maxDamage >= BEAST_MIN_DAMAGE
        /\ \A slot \in {"head", "chest", "waist", "hand", "foot"} :
              LET armor == adv.equipment[slot]
              IN  Equipped(armor) =>
                    /\ ~(itemSpecials(armor).prefix # NULL
                           /\ itemSpecials(armor).prefix = getSpecials(beast).prefix)
                    /\ ~(itemSpecials(armor).suffix # NULL
                           /\ itemSpecials(armor).suffix = getSpecials(beast).suffix)) =>
        \A slot \in {"head", "chest", "waist", "hand", "foot"} :
            preview.incoming.perSlot[slot] <= preview.incoming.maxDamage

MaxEvents == 2          \* event lists of 0..MaxEvents rows

RECURSIVE parseHexFrom(_, _, _)
parseHexFrom(digits, n, acc) ==
    IF n > Len(digits) \/ digits[n] \notin 0..15 THEN acc
    ELSE parseHexFrom(digits, n + 1, acc * 16 + digits[n])

\* parseInt(part, 16) of a '0x'-prefixed component: the value of its leading
\* hex digits, NaN when it has none.
parseInt16(digits) ==
    IF Len(digits) = 0 \/ digits[1] \notin 0..15 THEN NaN
    ELSE parseHexFrom(digits, 1, 0)

\* The eventIndex pushItem derives from the id of the row.
pushItemEventIndex(id) ==
    IF Len(id) >= 2
    THEN (IF Len(id) >= 4 /\ id[4].prefixed THEN parseInt16(id[4].digits) ELSE NULL)
    ELSE NULL

\* GameContext.parseInternalId(...).eventIndex (NULL for undefined).
parseInternalId(id) ==
    IF Len(id) = 0 \/ Len(id) < 2 THEN NULL
    ELSE IF Len(id) >= 4 /\ id[4].prefixed THEN parseInt16(id[4].digits)
    ELSE NULL

\* The order in which processEvents tests the detail groups of a row.
PushOrder ==
    <<"BeastDefeated", "FledBeast", "BeastEncounter", "Obstacle", "Discovery",
      "Purchase", "Equip", "Drop", "LevelUp", "Attack", "BeastAttack", "Ambush",
      "Flee", "MarketUpdated">>

\* The item pushItem appends for a row.
pushItem(type, event) ==
    [kind |-> type, at |-> event.at, id |-> event.id,
     eventIndex |-> pushItemEventIndex(event.id)]

\* The items one row appends to `items`: one per detail group it carries,
\* in the order of PushOrder, then 'Unknown' if the list is still empty.
pushItems(items, event) ==
    LET groups == SelectSeq(PushOrder, LAMBDA type : type \in event.kinds)
        pushed == items \o [i \in 1..Len(groups) |-> pushItem(groups[i], event)]
    IN  IF Len(pushed) = 0 THEN <<pushItem("Unknown", event)>> ELSE pushed

RECURSIVE processEventsFrom(_, _, _)
processEventsFrom(items, evs, n) ==
    IF n > Len(evs) THEN items
    ELSE processEventsFrom(pushItems(items, evs[n]), evs, n + 1)

\* GameContext.processEvents.
processEvents(evs) == processEventsFrom(<<>>, evs, 1)

\* The kindWeight table of buildUnifiedActivityFeed (`?? 999`).
kindWeight(kind) ==
    CASE kind = "BeastEncounter" -> 10
      [] kind = "Ambush" -> 20
      [] kind = "Attack" -> 30
      [] kind = "BeastAttack" -> 40
      [] kind = "Obstacle" -> 45
      [] kind = "Discovery" -> 50
      [] kind = "Purchase" -> 60
      [] kind = "Equip" -> 70
      [] kind = "Drop" -> 80
      [] kind = "LevelUp" -> 90
      [] kind = "BeastDefeated" -> 100
      [] kind = "MarketUpdated" -> 110
      [] kind = "AdventurerPacked" -> 120
      [] kind = "BagPacked" -> 130
      [] kind = "Unknown" -> 200
      [] OTHER -> 999

\* The comparator of feed.sort: negative when a sorts before b, 0 on a tie.
\* An event index that is not a number compares as +Infinity; a NaN event
\* index differs from every index, itself included, and the difference is
\* NaN, which sort takes as 0.
compareFeed(a, b) ==
    LET ta == IF Falsy(a.at) THEN 0 ELSE a.at
        tb == IF Falsy(b.at) THEN 0 ELSE b.at
    IN  IF tb # ta THEN tb - ta
        ELSE IF a.eventIndex = NaN \/ b.eventIndex = NaN THEN 0
        ELSE IF a.eventIndex # b.eventIndex
        THEN (IF a.eventIndex = NULL THEN 1
              ELSE IF b.eventIndex = NULL THEN -1
              ELSE a.eventIndex - b.eventIndex)
        ELSE kindWeight(a.kind) - kindWeight(b.kind)

RECURSIVE insertStable(_, _)
\* e placed after every entry of the sorted list that does not sort after
\* it.
insertStable(sorted, e) ==
    IF Len(sorted) = 0 THEN <<e>>
    ELSE IF compareFeed(sorted[Len(sorted)], e) <= 0 THEN Append(sorted, e)
    ELSE Append(insertStable(SubSeq(sorted, 1, Len(sorted) - 1), e), sorted[Len(sorted)])

RECURSIVE sortStableFrom(_, _, _)
sortStableFrom(sorted, list, n) ==
    IF n > Len(list) THEN sorted
    ELSE sortStableFrom(insertStable(sorted, list[n]), list, n + 1)

\* Array.prototype.sort with compareFeed: a stable sort.
sortStable(list) == sortStableFrom(<<>>, list, 1)

snapshotEntries(kind, rows) ==
    [i \in 1..Len(rows) |-> [kind |-> kind, at |-> rows[i].at, id |-> rows[i].id,
                             eventIndex |-> parseInternalId(rows[i].id)]]

\* GameContext.buildUnifiedActivityFeed.
buildUnifiedActivityFeed(evs, packed, bagPacked) ==
    sortStable(processEvents(evs)
               \o snapshotEntries("AdventurerPacked", packed)
               \o snapshotEntries("BagPacked", bagPacked))

(***************************************************************************)
(* Specification of the activity feed: Init draws the three input lists,   *)
(* the action builds the feed from them.                                   *)
(***************************************************************************)
Times == {NULL, 1}

Part(prefixed, digits) == [prefixed |-> prefixed, digits |-> digits]

NoId == <<>>

\* "0x1:0xa:0x0:" followed by the given fourth component.
IdWith(fourth) == <<Part(TRUE, <<1>>), Part(TRUE, <<10>>), Part(TRUE, <<0>>), fourth>>

EventIds == {NoId, IdWith(Part(TRUE, <<0>>))}

RowKinds == {{}, {"Attack"}, {"FledBeast"}, {"Flee"}, {"BeastEncounter", "Attack"}}

EventRows == [at : Times, id : EventIds, kinds : RowKinds]

EventRowLists == UNION {[1..n -> EventRows] : n \in 0..MaxEvents}

SnapshotLists == {<<>>, <<[at |-> 1, id |-> NoId]>>}

InitFeed ==
    /\ AgentIdle
    /\ feedIn \in [events : EventRowLists, packed : SnapshotLists,
                   bagPacked : SnapshotLists, built : {FALSE}]
    /\ feed = <<>>
    /\ recentEvents = NoRecent
    /\ calc = CalcIdle
    /\ PhaseIdle
    /\ CombatIdle

BuildUnifiedActivityFeed ==
    /\ ~feedIn.built
    /\ feedIn' = [feedIn EXCEPT !.built = TRUE]
    /\ feed' = buildUnifiedActivityFeed(feedIn.events, feedIn.packed, feedIn.bagPacked)
    /\ UNCHANGED <<phaseVars, calc, combatVars, recentEvents, agentVars>>

NextFeed == BuildUnifiedActivityFeed

SpecFeed == InitFeed /\ [][NextFeed]_vars

(***************************************************************************)
(* C10: the sequence of kinds of the feed is the same for every            *)
(* permutation of the input rows, and entries with equal timestamp and     *)
(* equal eventIndex are ordered strictly by the kind-priority table, for   *)
(* every kind the feed can contain (FledBeast and Flee included).          *)
(***************************************************************************)
KindsOf(entries) == [i \in 1..Len(entries) |-> entries[i].kind]

PermutationsOf(list) ==
    {[i \in 1..Len(list) |-> list[p[i]]] : p \in Permutations(1..Len(list))}

C10_FeedOrderIndependent ==
    feedIn.built =>
        /\ \A evs \in PermutationsOf(feedIn.events) :
              KindsOf(buildUnifiedActivityFeed(evs, feedIn.packed, feedIn.bagPacked))
                  = KindsOf(feed)
        /\ \A i, j \in 1..Len(feed) :
              (i < j /\ feed[i].at = feed[j].at /\ feed[i].eventIndex = feed[j].eventIndex
                     /\ feed[i].kind # feed[j].kind)
                  => kindWeight(feed[i].kind) < kindWeight(feed[j].kind)

(***************************************************************************)
(* C26: processEvents loses no input row: every row contributes one entry  *)
(* per recognised detail kind it carries, and an 'Unknown' entry when it   *)
(* carries none, wherever the row stands in the list.  Stated on the feed  *)
(* built from the rows: for every row and every kind expected of it, the   *)
(* feed holds as many entries of that kind, time and id as there are rows  *)
(* of that time and id expecting the kind.                                 *)
(***************************************************************************)
ExpectedKinds(event) ==
    LET recognised == {PushOrder[i] : i \in 1..Len(PushOrder)} \cap event.kinds
    IN  IF recognised = {} THEN {"Unknown"} ELSE recognised

C26_NoRowLost ==
    feedIn.built =>
        \A n \in 1..Len(feedIn.events) :
            \A kind \in ExpectedKinds(feedIn.events[n]) :
                Cardinality({i \in 1..Len(feed) :
                                /\ feed[i].kind = kind
                                /\ feed[i].at = feedIn.events[n].at
                                /\ feed[i].id = feedIn.events[n].id})
                  = Cardinality({m \in 1..Len(feedIn.events) :
                                    /\ kind \in ExpectedKinds(feedIn.events[m])
                                    /\ feedIn.events[m].at = feedIn.events[n].at
                                    /\ feedIn.events[m].id = feedIn.events[n].id})

\* The same for the lists in which every row carries a recognised kind, and
\* for the lists of a single row.
C26_RecognisedRows ==
    (feedIn.built
        /\ (Len(feedIn.events) > 1 =>
              \A n \in 1..Len(feedIn.events) :
                  "Unknown" \notin ExpectedKinds(feedIn.events[n]))) =>
        \A n \in 1..Len(feedIn.events) :
            \A kind \in ExpectedKinds(feedIn.events[n]) :
                Cardinality({i \in 1..Len(feed) :
                                /\ feed[i].kind = kind
                                /\ feed[i].at = feedIn.events[n].at
                                /\ feed[i].id = feedIn.events[n].id})
                  = Cardinality({m \in 1..Len(feedIn.events) :
                                    /\ kind \in ExpectedKinds(feedIn.events[m])
                                    /\ feedIn.events[m].at = feedIn.events[n].at
                                    /\ feedIn.events[m].id = feedIn.events[n].id})

(***************************************************************************)
(* recentEvents of the game context (GameContext.getGameContext): the      *)
(* first entries of the unified activity feed.  Init draws short lists of  *)
(* rows with every shape of id, and lists long enough for the feed to      *)
(* exceed the limit.                                                       *)
(***************************************************************************)
RecentLimit == 10

\* Array.prototype.slice(0, n).
slice(list, n) == SubSeq(list, 1, Min(n, Len(list)))

RecentIds ==
    {NoId,                                   \* no id
     <<Part(FALSE, <<16>>)>>,                \* no ':'
     <<Part(TRUE, <<1>>), Part(TRUE, <<10>>), Part(TRUE, <<0>>)>>,  \* three components
     IdWith(Part(TRUE, <<>>)),               \* "...:0x"
     IdWith(Part(TRUE, <<0>>)),              \* "...:0x0"
     IdWith(Part(TRUE, <<1>>)),              \* "...:0x1"
     IdWith(Part(TRUE, <<1, 0>>))}           \* "...:0x10"

RecentRows == [at : Times, id : RecentIds, kinds : {{"Attack"}, {"BeastEncounter", "Attack"}}]

\* n rows, r1 and r2 in turn.
Alternating(r1, r2, n) == [i \in 1..n |-> IF i % 2 = 1 THEN r1 ELSE r2]

RecentEventLists ==
    UNION {[1..n -> RecentRows] : n \in 0..MaxEvents}
    \cup {Alternating(r1, r2, RecentLimit + 1) : r1, r2 \in RecentRows}

InitRecent ==
    /\ AgentIdle
    /\ feedIn \in [events : RecentEventLists, packed : SnapshotLists,
                   bagPacked : SnapshotLists, built : {FALSE}]
    /\ feed = <<>>
    /\ recentEvents = NoRecent
    /\ calc = CalcIdle
    /\ PhaseIdle
    /\ CombatIdle

\* The recentEvents member of GameContext.getGameContext.
GameContextRecentEvents ==
    /\ ~recentEvents.done
    /\ feedIn' = [feedIn EXCEPT !.built = TRUE]
    /\ feed' = buildUnifiedActivityFeed(feedIn.events, feedIn.packed, feedIn.bagPacked)
    /\ recentEvents' = [done |-> TRUE, entries |-> slice(feed', RecentLimit)]
    /\ UNCHANGED <<phaseVars, calc, combatVars, agentVars>>

NextRecent == GameContextRecentEvents

SpecRecent == InitRecent /\ [][NextRecent]_vars

\* The time an entry is ordered by: 0 when it has none.
TimeOf(e) == IF Falsy(e.at) THEN 0 ELSE e.at

\* An id has a known event index when it has a fourth component that is
\* '0x' followed by a hex number.
IndexKnown(id) ==
    Len(id) >= 4 /\ id[4].prefixed /\ Len(id[4].digits) > 0
        /\ \A k \in 1..Len(id[4].digits) : id[4].digits[k] \in 0..15

RECURSIVE HexValue(_)
HexValue(digits) ==
    IF Len(digits) = 0 THEN 0
    ELSE 16 * HexValue(SubSeq(digits, 1, Len(digits) - 1)) + digits[Len(digits)]

\* a may stand before b among entries of equal time: an unknown index
\* stands after every known one.
IndexInOrder(a, b) ==
    \/ ~IndexKnown(b.id)
    \/ IndexKnown(a.id) /\ HexValue(a.id[4].digits) <= HexValue(b.id[4].digits)

\* a sorts strictly before b: newer, or as new with a smaller event index.
SortsBefore(a, b) ==
    \/ TimeOf(a) > TimeOf(b)
    \/ TimeOf(a) = TimeOf(b) /\ IndexInOrder(a, b) /\ ~IndexInOrder(b, a)

(***************************************************************************)
(* C11: recentEvents has at most 10 entries, the first ones of the merged  *)
(* feed; adjacent entries are newest first and, at equal times, in         *)
(* ascending event index with every unknown index after every known one;   *)
(* and no entry of the feed left out sorts before an entry included.       *)
(***************************************************************************)
C11_RecentEventsNewestFirst ==
    recentEvents.done =>
        LET r == recentEvents.entries
        IN  /\ Len(r) <= 10
            /\ r = SubSeq(feed, 1, Len(r))
            /\ Len(feed) > Len(r) => Len(r) = 10
            /\ \A i \in 1..(Len(r) - 1) :
                  /\ TimeOf(r[i]) >= TimeOf(r[i + 1])
                  /\ TimeOf(r[i]) = TimeOf(r[i + 1]) => IndexInOrder(r[i], r[i + 1])
            /\ \A i \in 1..Len(r), j \in (Len(r) + 1)..Len(feed) :
                  ~SortsBefore(feed[j], r[i])

\* The same, for feeds none of whose ids ends in a bare '0x' component.
C11_ParsableIds ==
    (recentEvents.done
        /\ \A i \in 1..Len(feed) : feed[i].eventIndex # NaN)
    => C11_RecentEventsNewestFirst

(***************************************************************************)
(* Specification of the rules of GameStateService and of the entities that *)
(* are functions of their arguments alone: Init draws a function and its   *)
(* arguments into calc, the action applies the function once.              *)
(***************************************************************************)
MaxOutcomeHealth == 8   \* adventurer and beast health 0..MaxOutcomeHealth
MaxOutcomeDamage == 3   \* beast damage 0..MaxOutcomeDamage, player damage up to it

\* Average player damage in hundredths, by quarters.
OutcomeDamages100 == {25 * k : k \in 0..(4 * MaxOutcomeDamage)}

OutcomeInputs ==
    [fn : {"estimateCombatOutcome"}, done : {FALSE},
     adventurerHealth : 0..MaxOutcomeHealth, beastHealth : 0..MaxOutcomeHealth,
     averagePlayerDamage100 : OutcomeDamages100, beastDamage : 0..MaxOutcomeDamage,
     out : {NULL}]

MaxRuns == 2            \* the preview of one beast is computed up to MaxRuns times

SeedHalves == {0, 499, 500, 10499}

Seeds == {NoSeed, Unparsable} \cup {SeedText(high, low) : high, low \in SeedHalves}

\* The details.beast.is_collectable and details.beast.seed columns of a row.
CollectableInputs ==
    [fn : {"collectable"}, done : {FALSE}, runs : {0},
     is_collectable : {NULL, 0, 1}, seed : Seeds, out : {NULL}]

MaxSeed == 2            \* item_specials_seed values 0..MaxSeed

\* Item xp on both sides of the levels 15 and 19.
SpecialsXps == {0, 196, 224, 225, 324, 360, 361, 400}

SpecialsInputs ==
    [fn : {"withSpecials", "parseItem"}, done : {FALSE}, id : {1, 9, 21, 77, 101},
     xp : SpecialsXps, seed : 0..MaxSeed, out : {NULL}]

\* Beast ids: the 75 beasts and the ids next to them.
BeastIdInputs == [fn : {"beast"}, done : {FALSE}, id : 0..76, out : {NULL}]

\* Item ids: the 101 items and the ids next to them.
ItemIdInputs == [fn : {"item"}, done : {FALSE}, id : 0..102, out : {NULL}]

\* A JSON value: its type and, for an array, its elements (item ids).
Json(t, items) == [t |-> t, items |-> items]

MarketArrays == {Json("array", ids) : ids \in UNION {[1..n -> {9, 21}] : n \in 0..MaxMarket}}

\* The details.market_items.items column: absent or null, an empty string,
\* a string that is not JSON, a string of JSON, or a value handed over as
\* it is.
Payload(form, value) == [form |-> form, value |-> value]

MarketPayloads ==
    {Payload("absent", Json("null", <<>>)),
     Payload("emptyText", Json("string", <<>>)),
     Payload("badText", Json("string", <<>>))}
    \cup {Payload("jsonText", v) :
             v \in {Json("null", <<>>), Json("zero", <<>>), Json("number", <<>>),
                    Json("string", <<>>), Json("object", <<>>)} \cup MarketArrays}
    \cup {Payload("value", v) :
             v \in {Json("zero", <<>>), Json("number", <<>>), Json("object", <<>>)}
                   \cup MarketArrays}

MarketInputs == [fn : {"market"}, done : {FALSE}, payload : MarketPayloads, out : {NULL}]

MaxInclude == 2         \* include lists of 1..MaxInclude comma-separated names

ContextKeys == {"game", "adventurer", "currentBeast", "damagePreview", "market",
                "recentEvents"}

\* One comma-separated piece of the include parameter: the name it holds
\* and whether blanks surround it.
IncludePieces ==
    [name : ContextKeys \cup {"phase", ""}, padded : {FALSE}]
    \cup [name : {"game", ""}, padded : {TRUE}]

\* The include query parameter: absent, or the pieces of the string.
NoInclude == [present |-> FALSE, pieces |-> <<>>]

IncludeParams ==
    {NoInclude}
    \cup {[present |-> TRUE, pieces |-> ps] :
             ps \in UNION {[1..n -> IncludePieces] : n \in 1..MaxInclude}}

\* The context of getGameContext: every key has a value; currentBeast and
\* damagePreview are null outside a battle.  A value is named by its key.
GameContexts ==
    {[k \in ContextKeys |->
         IF k \in {"currentBeast", "damagePreview"} /\ ~inBattle THEN "null" ELSE k] :
       inBattle \in BOOLEAN}

ContextJsonInputs ==
    [fn : {"contextJson"}, done : {FALSE}, include : IncludeParams,
     context : GameContexts, out : {NULL}]

\* Weapons of level 16 and 20 with every pair of names, rings of level 3
\* and 10, beasts of level 18 and 19 with every pair of names.
SpecialWeapons ==
    {NoItem} \cup {Item(42, xp, "Item", prefix, suffix) :
                     xp \in {256, 400}, prefix \in {NULL, 1, 2}, suffix \in {NULL, 1, 2}}

SpecialRings ==
    Rings \cup {Item(6, 9, "Platinum Ring", NULL, NULL)}

SpecialBeasts ==
    {Beast(id, level, 50, special2, special3) :
        id \in {1, 30}, level \in {18, 19}, special2 \in {0, 1}, special3 \in {0, 1}}

DamageInputs ==
    {[fn |-> "calculateDamageVsBeast", done |-> FALSE,
      adv |-> Adventurer(weapon, ExampleArmor, NoItem, ring, 0, 0),
      beast |-> b, out |-> NULL] :
        weapon \in SpecialWeapons, ring \in SpecialRings, b \in SpecialBeasts}

RulesInputs ==
    DamageInputs \cup OutcomeInputs \cup CollectableInputs \cup SpecialsInputs \cup BeastIdInputs
        \cup ItemIdInputs \cup MarketInputs \cup ContextJsonInputs

InitRules ==
    /\ AgentIdle
    /\ calc \in RulesInputs
    /\ PhaseIdle
    /\ CombatIdle
    /\ FeedIdle

ApplyEstimateCombatOutcome ==
    /\ calc.fn = "estimateCombatOutcome" /\ ~calc.done
    /\ calc' = [calc EXCEPT !.done = TRUE,
                   !.out = estimateCombatOutcome(calc.adventurerHealth, calc.beastHealth,
                                                 calc.averagePlayerDamage100,
                                                 calc.beastDamage)]
    /\ UNCHANGED <<phaseVars, combatVars, feedVars, agentVars>>

\* The combat preview of the README adventurer against the Wolf with the
\* row's seed and collectable flag; computed again on every request.
ApplyCollectablePreview ==
    /\ calc.fn = "collectable" /\ calc.runs < MaxRuns
    /\ LET b == [GoldenBeast EXCEPT
                    !.seed = parseBeastSeed(calc.seed),
                    !.isCollectable = parseBeastIsCollectable(calc.is_collectable)]
       IN  calc' = [calc EXCEPT !.done = TRUE, !.runs = @ + 1,
                       !.out = calculateCombatPreview(GoldenAdventurer, b).collectable]
    /\ UNCHANGED <<phaseVars, combatVars, feedVars, agentVars>>

\* ItemEntity.withSpecials: which of the two specials the item is given.
\* getSpecialPrefix and getSpecialSuffix index the name tables inside their
\* ranges (1..69, 1..18), so a special that is computed is assigned.
withSpecials(xp, seed) ==
    LET level == calculateLevel(xp)
    IN  IF level >= PREFIXES_UNLOCK_GREATNESS
        THEN [prefix |-> TRUE, suffix |-> level >= SUFFIX_UNLOCK_GREATNESS]
        ELSE [prefix |-> FALSE, suffix |-> FALSE]

\* GameStateService.parseItem: which of the two specials the item is given.
parseItemSpecials(xp, seed) ==
    LET level == FloorSqrt(OrZero(xp))
    IN  [prefix |-> level >= 19 /\ ~Falsy(seed),
         suffix |-> level >= 15 /\ ~Falsy(seed)]

\* GameStateService.parseBag: the same for an item of the bag.
parseBagSpecials(xp, seed) ==
    LET level == FloorSqrt(OrZero(xp))
    IN  [prefix |-> level >= 19 /\ ~Falsy(seed),
         suffix |-> level >= 15 /\ ~Falsy(seed)]

\* AdventurerEntity.withEquipment: an equipped item with its specials.
ApplyWithSpecials ==
    /\ calc.fn = "withSpecials" /\ ~calc.done
    /\ calc' = [calc EXCEPT !.done = TRUE,
                   !.out = [equipped |-> withSpecials(calc.xp, calc.seed)]]
    /\ UNCHANGED <<phaseVars, combatVars, feedVars, agentVars>>

\* GameStateService.mapRowToGameState: the same item equipped and in the
\* bag.
ApplyParseItem ==
    /\ calc.fn = "parseItem" /\ ~calc.done
    /\ calc' = [calc EXCEPT !.done = TRUE,
                   !.out = [equipped |-> parseItemSpecials(calc.xp, calc.seed),
                            bag |-> parseBagSpecials(calc.xp, calc.seed)]]
    /\ UNCHANGED <<phaseVars, combatVars, feedVars, agentVars>>

\* GameStateService.getBeastTier.
getBeastTier(id) ==
    IF (id >= 1 /\ id <= 5) \/ (id >= 26 /\ id <= 30) \/ (id >= 51 /\ id <= 55) THEN 1
    ELSE IF (id >= 6 /\ id <= 10) \/ (id >= 31 /\ id <= 35) \/ (id >= 56 /\ id <= 60) THEN 2
    ELSE IF (id >= 11 /\ id <= 15) \/ (id >= 36 /\ id <= 40) \/ (id >= 61 /\ id <= 65) THEN 3
    ELSE IF (id >= 16 /\ id <= 20) \/ (id >= 41 /\ id <= 45) \/ (id >= 66 /\ id <= 70) THEN 4
    ELSE 5

\* The getTier helper of IndexerClient.getBeastFromSeed.
getBeastFromSeedTier(id) ==
    IF (id >= 1 /\ id <= 5) \/ (id >= 26 /\ id < 31) \/ (id >= 51 /\ id < 56) THEN 1
    ELSE IF (id >= 6 /\ id < 11) \/ (id >= 31 /\ id < 36) \/ (id >= 56 /\ id < 61) THEN 2
    ELSE IF (id >= 11 /\ id < 16) \/ (id >= 36 /\ id < 41) \/ (id >= 61 /\ id < 66) THEN 3
    ELSE IF (id >= 16 /\ id < 21) \/ (id >= 41 /\ id < 46) \/ (id >= 66 /\ id < 71) THEN 4
    ELSE 5

\* GameStateService.getBeastType: the attack type of the beast.
getBeastType(id) ==
    IF id >= 1 /\ id <= 25 THEN "Magic"
    ELSE IF id >= 26 /\ id <= 50 THEN "Blade"
    ELSE IF id >= 51 /\ id <= 75 THEN "Bludgeon"
    ELSE "None"

\* GameStateService.getBeastArmorType.
getBeastArmorType(id) ==
    IF id >= 1 /\ id <= 25 THEN "Cloth"
    ELSE IF id >= 26 /\ id <= 50 THEN "Hide"
    ELSE IF id >= 51 /\ id <= 75 THEN "Metal"
    ELSE "None"

\* The classification of one beast id by BeastEntity, by GameStateService
\* and by getBeastFromSeed, and the attack type of its incoming damage.
ApplyBeastClassification ==
    /\ calc.fn = "beast" /\ ~calc.done
    /\ calc' = [calc EXCEPT !.done = TRUE,
                   !.out = [entityTier |-> getTier(calc.id),
                            serviceTier |-> getBeastTier(calc.id),
                            seedTier |-> getBeastFromSeedTier(calc.id),
                            entityArmor |-> getArmorType(calc.id),
                            serviceArmor |-> getBeastArmorType(calc.id),
                            entityAttack |-> getBeastAttackType(calc.id),
                            serviceAttack |-> getBeastType(calc.id)]]
    /\ UNCHANGED <<phaseVars, combatVars, feedVars, agentVars>>

\* The slot predicates of ItemEntity.
isNecklace(id) == id <= 3

isRing(id) == id >= 4 /\ id <= 8

isChest(id) == (id >= 17 /\ id <= 21) \/ (id >= 47 /\ id <= 51) \/ (id >= 77 /\ id <= 81)

isHead(id) == (id >= 22 /\ id <= 26) \/ (id >= 52 /\ id <= 56) \/ (id >= 82 /\ id <= 86)

isWaist(id) == (id >= 27 /\ id <= 31) \/ (id >= 57 /\ id <= 61) \/ (id >= 87 /\ id <= 91)

isFoot(id) == (id >= 32 /\ id <= 36) \/ (id >= 62 /\ id <= 66) \/ (id >= 92 /\ id <= 96)

isHand(id) == (id >= 37 /\ id <= 41) \/ (id >= 67 /\ id <= 71) \/ (id >= 97 /\ id <= 101)

\* ItemEntity.calculateSlot.
calculateSlot(id) ==
    IF isNecklace(id) THEN "Neck"
    ELSE IF isRing(id) THEN "Ring"
    ELSE IF isWeapon(id) THEN "Weapon"
    ELSE IF isChest(id) THEN "Chest"
    ELSE IF isHead(id) THEN "Head"
    ELSE IF isWaist(id) THEN "Waist"
    ELSE IF isFoot(id) THEN "Foot"
    ELSE IF isHand(id) THEN "Hand"
    ELSE "None"

\* The slots whose predicate of ItemEntity holds of the id.
slotsOf(id) ==
    {slot \in {"Neck", "Ring", "Weapon", "Chest", "Head", "Waist", "Foot", "Hand"} :
        CASE slot = "Neck" -> isNecklace(id)
          [] slot = "Ring" -> isRing(id)
          [] slot = "Weapon" -> isWeapon(id)
          [] slot = "Chest" -> isChest(id)
          [] slot = "Head" -> isHead(id)
          [] slot = "Waist" -> isWaist(id)
          [] slot = "Foot" -> isFoot(id)
          [] slot = "Hand" -> isHand(id)}

\* GameStateService.getItemTier.
getItemTier(id) ==
    IF id <= 0 THEN 5
    ELSE IF id >= 1 /\ id <= 3 THEN 1
    ELSE IF id = 4 THEN 2
    ELSE IF id = 5 THEN 3
    ELSE IF id >= 6 /\ id <= 8 THEN 1
    ELSE IF id \in {9, 13, 17, 22, 27, 32, 37, 42, 47, 52, 57, 62, 67, 72, 77, 82, 87,
                    92, 97} THEN 1
    ELSE IF id \in {10, 14, 18, 23, 28, 33, 38, 43, 48, 53, 58, 63, 68, 73, 78, 83, 88,
                    93, 98} THEN 2
    ELSE IF id \in {11, 15, 19, 24, 29, 34, 39, 44, 49, 54, 59, 64, 69, 74, 79, 84, 89,
                    94, 99} THEN 3
    ELSE IF id \in {20, 25, 30, 35, 40, 45, 50, 55, 60, 65, 70, 75, 80, 85, 90, 95,
                    100} THEN 4
    ELSE 5

\* GameStateService.getWeaponType.
getWeaponType(id) ==
    IF id >= 9 /\ id <= 16 THEN "Magic"
    ELSE IF id >= 42 /\ id <= 46 THEN "Blade"
    ELSE IF id >= 72 /\ id <= 76 THEN "Bludgeon"
    ELSE "None"

\* GameStateService.getItemType.
getItemType(id) ==
    IF id <= 3 THEN "Necklace"
    ELSE IF id >= 4 /\ id <= 8 THEN "Ring"
    ELSE IF (id >= 9 /\ id <= 16) \/ (id >= 42 /\ id <= 46) \/ (id >= 72 /\ id <= 76)
    THEN getWeaponType(id)
    ELSE IF id >= 17 /\ id <= 41 THEN "Cloth"
    ELSE IF id >= 47 /\ id <= 71 THEN "Hide"
    ELSE IF id >= 77 /\ id <= 101 THEN "Metal"
    ELSE "None"

\* GameStateService.getItemSlot.
getItemSlot(id) ==
    IF id <= 3 THEN "Neck"
    ELSE IF id >= 4 /\ id <= 8 THEN "Ring"
    ELSE IF (id >= 9 /\ id <= 16) \/ (id >= 42 /\ id <= 46) \/ (id >= 72 /\ id <= 76)
    THEN "Weapon"
    ELSE IF (id >= 17 /\ id <= 21) \/ (id >= 47 /\ id <= 51) \/ (id >= 77 /\ id <= 81)
    THEN "Chest"
    ELSE IF (id >= 22 /\ id <= 26) \/ (id >= 52 /\ id <= 56) \/ (id >= 82 /\ id <= 86)
    THEN "Head"
    ELSE IF (id >= 27 /\ id <= 31) \/ (id >= 57 /\ id <= 61) \/ (id >= 87 /\ id <= 91)
    THEN "Waist"
    ELSE IF (id >= 32 /\ id <= 36) \/ (id >= 62 /\ id <= 66) \/ (id >= 92 /\ id <= 96)
    THEN "Foot"
    ELSE IF (id >= 37 /\ id <= 41) \/ (id >= 67 /\ id <= 71) \/ (id >= 97 /\ id <= 101)
    THEN "Hand"
    ELSE "None"

\* The classification of one item id by ItemEntity and by GameStateService.
ApplyItemClassification ==
    /\ calc.fn = "item" /\ ~calc.done
    /\ calc' = [calc EXCEPT !.done = TRUE,
                   !.out = [entityTier |-> calculateTier(calc.id),
                            serviceTier |-> getItemTier(calc.id),
                            entityType |-> calculateType(calc.id),
                            serviceType |-> getItemType(calc.id),
                            entitySlot |-> calculateSlot(calc.id),
                            serviceSlot |-> getItemSlot(calc.id),
                            slots |-> slotsOf(calc.id)]]
    /\ UNCHANGED <<phaseVars, combatVars, feedVars, agentVars>>

\* !payload: null, undefined, '' and 0 are falsy.
FalsyPayload(payload) ==
    \/ payload.form \in {"absent", "emptyText"}
    \/ payload.form = "value" /\ payload.value.t = "zero"

IsText(payload) == payload.form \in {"emptyText", "badText", "jsonText"}

\* JSON.parse of a string payload: it throws on a string that is not JSON.
JSONparse(payload) ==
    [threw |-> payload.form # "jsonText", value |-> payload.value]

\* The entry parseMarket makes of an item id (the price, taken from
\* ItemUtils, is left out).
marketEntry(id) ==
    [id |-> id, tier |-> getItemTier(id), type |-> getItemType(id), slot |-> getItemSlot(id)]

\* parseMarket without its try/catch: the exception of JSON.parse leaves
\* the function.
parseMarketNoCatch(payload) ==
    IF FalsyPayload(payload) THEN [raised |-> FALSE, items |-> <<>>]
    ELSE LET parsed == IF IsText(payload) THEN JSONparse(payload)
                       ELSE [threw |-> FALSE, value |-> payload.value]
         IN  IF parsed.threw THEN [raised |-> TRUE, items |-> <<>>]
             ELSE IF parsed.value.t # "array" THEN [raised |-> FALSE, items |-> <<>>]
             ELSE [raised |-> FALSE,
                   items |-> [i \in 1..Len(parsed.value.items) |->
                                 marketEntry(parsed.value.items[i])]]

\* GameStateService.parseMarket: [raised, items].
parseMarket(payload) ==
    IF FalsyPayload(payload) THEN [raised |-> FALSE, items |-> <<>>]
    ELSE LET parsed == IF IsText(payload) THEN JSONparse(payload)
                       ELSE [threw |-> FALSE, value |-> payload.value]
         IN  IF parsed.threw THEN [raised |-> FALSE, items |-> <<>>]
             ELSE IF parsed.value.t # "array" THEN [raised |-> FALSE, items |-> <<>>]
             ELSE [raised |-> FALSE,
                   items |-> [i \in 1..Len(parsed.value.items) |->
                                 marketEntry(parsed.value.items[i])]]

\* IndexerClient.getMarketItems, from the items field of the row on:
\* [raised, items].
getMarketItems(itemsField) ==
    IF FalsyPayload(itemsField) THEN [raised |-> FALSE, items |-> <<>>]
    ELSE IF IsText(itemsField)
    THEN (LET arr == JSONparse(itemsField)
          IN  IF arr.threw THEN [raised |-> FALSE, items |-> <<>>]
              ELSE [raised |-> FALSE,
                    items |-> IF arr.value.t = "array" THEN arr.value.items ELSE <<>>])
    ELSE IF itemsField.value.t = "array"
    THEN [raised |-> FALSE, items |-> itemsField.value.items]
    ELSE [raised |-> FALSE, items |-> <<>>]

\* The game state GameStateService.mapRowToGameState builds around the
\* market, and the context GameContext.getGameContext builds around the
\* list of getMarketItems: an exception leaving either parser leaves the
\* builder as well.
ApplyMarketPayload ==
    /\ calc.fn = "market" /\ ~calc.done
    /\ LET market == parseMarket(calc.payload)
           marketItems == getMarketItems(calc.payload)
       IN  calc' = [calc EXCEPT !.done = TRUE,
                       !.out = [parseMarket |-> market,
                                getMarketItems |-> marketItems,
                                gameState |->
                                    IF market.raised THEN [produced |-> FALSE]
                                    ELSE [produced |-> TRUE, market |-> market.items],
                                gameContext |->
                                    IF marketItems.raised THEN [produced |-> FALSE]
                                    ELSE [produced |-> TRUE,
                                          market |-> processMarketItems(marketItems.items,
                                                                        0, 1)]]]
    /\ UNCHANGED <<phaseVars, combatVars, feedVars, agentVars>>

\* Whether the include parameter is a non-empty string.
TruthyInclude(include) ==
    include.present
        /\ ~(Len(include.pieces) = 1 /\ include.pieces[1].name = ""
                /\ ~include.pieces[1].padded)

\* includeParam.split(',').map(s => s.trim()).filter(Boolean), as a set.
allowedOf(include) ==
    {include.pieces[i].name : i \in 1..Len(include.pieces)} \ {""}

\* The filter of the route keeping only the keys whose value is truthy.
contextJsonTruthy(include, context) ==
    IF TruthyInclude(include)
    THEN LET allowed == allowedOf(include)
             kept == {key \in ContextKeys :
                         key \in allowed /\ context[key] \notin {"undefined", "null"}}
         IN  [key \in kept |-> context[key]]
    ELSE context

\* GET /game/:id/context-json: the body of the response.
contextJson(include, context) ==
    IF TruthyInclude(include)
    THEN LET allowed == allowedOf(include)
             kept == {key \in ContextKeys :
                         key \in allowed /\ context[key] # "undefined"}
         IN  [key \in kept |-> context[key]]
    ELSE context

GetContextJson ==
    /\ calc.fn = "contextJson" /\ ~calc.done
    /\ calc' = [calc EXCEPT !.done = TRUE,
                   !.out = contextJson(calc.include, calc.context)]
    /\ UNCHANGED <<phaseVars, combatVars, feedVars, agentVars>>

\* AdventurerEntity.calculateDamageVsBeast of the loaded adventurer.
ApplyCalculateDamageVsBeast ==
    /\ calc.fn = "calculateDamageVsBeast" /\ ~calc.done
    /\ calc' = [calc EXCEPT !.done = TRUE,
                   !.out = calculateDamageVsBeast(calc.adv, calc.beast)]
    /\ UNCHANGED <<phaseVars, combatVars, feedVars, agentVars>>

NextRules ==
    \/ ApplyCalculateDamageVsBeast
    \/ GetContextJson
    \/ ApplyMarketPayload
    \/ ApplyItemClassification
    \/ ApplyBeastClassification
    \/ ApplyEstimateCombatOutcome
    \/ ApplyCollectablePreview
    \/ ApplyWithSpecials
    \/ ApplyParseItem

SpecRules == InitRules /\ [][NextRules]_vars

\* The least n of 0..bound with n * step >= amount: ceil(amount / step).
RoundsNeeded(amount, step, bound) ==
    CHOOSE n \in 0..bound :
        /\ n * step >= amount
        /\ \A m \in 0..(n - 1) : m * step < amount

(***************************************************************************)
(* C13: with P = max(1, averagePlayerDamage), rB = max(1, ceil(beastHealth *)
(* / P)) and rA = ceil(adventurerHealth / beastDamage) (infinite when      *)
(* beastDamage <= 0), estimateCombatOutcome reports a win in rB rounds     *)
(* with damage taken (rB - 1) * beastDamage exactly when rB <= rA, and     *)
(* otherwise a loss in rA rounds.  ('no damage' is the rendering of damage *)
(* taken 0.)                                                               *)
(***************************************************************************)
C13_OutcomeEstimate ==
    (calc.fn = "estimateCombatOutcome" /\ calc.done) =>
        LET P100 == Max(100, calc.averagePlayerDamage100)
            rB == Max(1, RoundsNeeded(calc.beastHealth * 100, P100, calc.beastHealth))
            unbounded == calc.beastDamage <= 0
            rA == RoundsNeeded(calc.adventurerHealth, calc.beastDamage,
                               calc.adventurerHealth)
            wins == unbounded \/ rB <= rA
        IN  /\ calc.out.win = wins
            /\ wins => /\ calc.out.rounds = rB
                       /\ calc.out.damageTaken = (rB - 1) * calc.beastDamage
            /\ ~wins => calc.out.rounds = rA

\* A win on a tie of the two round counts, with damage taken.
C13_Witness ==
    /\ calc.fn = "estimateCombatOutcome" /\ calc.done
    /\ calc.beastDamage > 0
    /\ calc.out.win /\ calc.out.rounds > 1 /\ calc.out.damageTaken > 0
    /\ calc.out.rounds * calc.beastDamage >= calc.adventurerHealth
    /\ (calc.out.rounds - 1) * calc.beastDamage < calc.adventurerHealth

(***************************************************************************)
(* C24: whenever estimateCombatOutcome reports a win for an adventurer of  *)
(* health >= 1 against a beast damage >= 1, the damage taken it reports is *)
(* strictly less than the adventurer's health: a predicted win never       *)
(* implies the adventurer's death.                                         *)
(***************************************************************************)
C24_WinIsSurvived ==
    (calc.fn = "estimateCombatOutcome" /\ calc.done /\ calc.out.win
        /\ calc.adventurerHealth >= 1 /\ calc.beastDamage >= 1) =>
        calc.out.damageTaken < calc.adventurerHealth

\* A win that leaves the adventurer a single point of health.
C24_Witness ==
    /\ calc.fn = "estimateCombatOutcome" /\ calc.done /\ calc.out.win
    /\ calc.adventurerHealth >= 2 /\ calc.beastDamage >= 1
    /\ calc.out.damageTaken = calc.adventurerHealth - 1

(***************************************************************************)
(* C14: in the combat preview, collectable.eligible is true iff the beast  *)
(* is flagged collectable and its parsed seed is non-zero, a missing or    *)
(* unparsable seed counting as 0; whenever eligible is false, shiny and    *)
(* animated are both false; and recomputing the preview of the same beast  *)
(* gives the same three booleans.                                          *)
(***************************************************************************)
C14_EligibleAndTraits ==
    (calc.fn = "collectable" /\ calc.done) =>
        LET flagged == calc.is_collectable \notin {NULL, 0}
            seedNonZero == /\ calc.seed.text /\ calc.seed.parsable
                           /\ (calc.seed.high # 0 \/ calc.seed.low # 0)
        IN  /\ calc.out.eligible <=> (flagged /\ seedNonZero)
            /\ ~calc.out.eligible => (~calc.out.shiny /\ ~calc.out.animated)

C14_Recomputed ==
    (calc.fn = "collectable" /\ calc.done /\ calc'.done) => calc'.out = calc.out

SpecialsAsUnlocked(specials, level) ==
    /\ specials.suffix <=> level >= 15
    /\ specials.prefix <=> level >= 19

C15_SpecialsUnlock ==
    (calc.fn \in {"withSpecials", "parseItem"} /\ calc.done /\ calc.seed # 0) =>
        /\ SpecialsAsUnlocked(calc.out.equipped, FloorSqrt(calc.xp))
        /\ calc.fn = "parseItem" => SpecialsAsUnlocked(calc.out.bag, FloorSqrt(calc.xp))

\* The same for GameStateService alone.
C15_ParseItemOnly ==
    (calc.fn = "parseItem" /\ calc.done /\ calc.seed # 0) => C15_SpecialsUnlock

(***************************************************************************)
(* C16: for every beast id of 1..75 the type band is 1-25, 26-50, 51-75    *)
(* with armor Cloth, Hide, Metal and attack type Magic, Blade, Bludgeon,   *)
(* and the tier is 1 + floor(((id - 1) mod 25) / 5); BeastEntity.getTier,  *)
(* GameStateService.getBeastTier and the getTier helper of                 *)
(* getBeastFromSeed return that tier.                                      *)
(***************************************************************************)
BandOf(id) == 1 + (id - 1) \div 25

C16_BeastBands ==
    (calc.fn = "beast" /\ calc.done /\ calc.id \in 1..75) =>
        LET tier == 1 + ((calc.id - 1) % 25) \div 5
            armor == <<"Cloth", "Hide", "Metal">>[BandOf(calc.id)]
            attack == <<"Magic", "Blade", "Bludgeon">>[BandOf(calc.id)]
        IN  /\ calc.out.entityTier = tier
            /\ calc.out.serviceTier = tier
            /\ calc.out.seedTier = tier
            /\ calc.out.entityArmor = armor /\ calc.out.serviceArmor = armor
            /\ calc.out.entityAttack = attack /\ calc.out.serviceAttack = attack

\* The last id of the second band: Hide, Blade, tier 5.
C16_Witness ==
    /\ calc.fn = "beast" /\ calc.done /\ calc.id = 50
    /\ calc.out.entityTier = 5 /\ calc.out.seedTier = 5
    /\ calc.out.entityArmor = "Hide" /\ calc.out.serviceAttack = "Blade"

(***************************************************************************)
(* C17: on the ids 1..101 the item classification is total and             *)
(* unambiguous: every id has exactly one slot among Neck, Ring, Weapon,    *)
(* Chest, Head, Waist, Foot, Hand and a tier of 1..5 (ids 1-3 Necklace     *)
(* tier 1, id 4 tier 2, id 5 tier 3, ids 6-8 Ring tier 1); its type is     *)
(* Magic/Blade/Bludgeon iff its slot is Weapon and Cloth/Hide/Metal iff    *)
(* its slot is one of the five armor slots; and ItemEntity and             *)
(* GameStateService return the same tier, type and slot.                   *)
(***************************************************************************)
C17_ItemClassification ==
    (calc.fn = "item" /\ calc.done /\ calc.id \in 1..101) =>
        LET o == calc.out
        IN  /\ Cardinality(o.slots) = 1 /\ o.slots = {o.entitySlot}
            /\ o.entityTier \in 1..5
            /\ calc.id \in 1..3 => (o.entityType = "Necklace" /\ o.entityTier = 1
                                      /\ o.entitySlot = "Neck")
            /\ calc.id = 4 => o.entityTier = 2
            /\ calc.id = 5 => o.entityTier = 3
            /\ calc.id \in 6..8 => (o.entityType = "Ring" /\ o.entityTier = 1
                                      /\ o.entitySlot = "Ring")
            /\ o.entityType \in AttackTypes <=> o.entitySlot = "Weapon"
            /\ o.entityType \in ArmorTypes
                  <=> o.entitySlot \in {"Chest", "Head", "Waist", "Foot", "Hand"}
            /\ o.serviceTier = o.entityTier
            /\ o.serviceType = o.entityType
            /\ o.serviceSlot = o.entitySlot

\* The first chest piece of the second band: Hide armor of tier 1.
C17_Witness ==
    /\ calc.fn = "item" /\ calc.done /\ calc.id = 47
    /\ calc.out.entitySlot = "Chest" /\ calc.out.serviceType = "Hide"
    /\ calc.out.entityTier = 1 /\ calc.out.serviceTier = 1

(***************************************************************************)
(* C18: for every market payload - absent or null, a string that is not    *)
(* valid JSON, JSON that parses to a non-array, or an array -              *)
(* GameStateService.parseMarket and IndexerClient.getMarketItems return a  *)
(* list without raising; the list is empty in every case except an array   *)
(* (given directly or JSON-encoded), with one entry per element then; and  *)
(* the rest of the game state is still produced.                           *)
(***************************************************************************)
C18_MarketPayload ==
    (calc.fn = "market" /\ calc.done) =>
        LET isArray == /\ calc.payload.form \in {"jsonText", "value"}
                       /\ calc.payload.value.t = "array"
            size == IF isArray THEN Len(calc.payload.value.items) ELSE 0
        IN  /\ ~calc.out.parseMarket.raised /\ ~calc.out.getMarketItems.raised
            /\ Len(calc.out.parseMarket.items) = size
            /\ Len(calc.out.getMarketItems.items) = size
            /\ calc.out.gameState.produced /\ calc.out.gameContext.produced
            /\ Len(calc.out.gameState.market) = size
            /\ Len(calc.out.gameContext.market) = size

\* A string that is not JSON: both lists empty, both results produced.
C18_Witness ==
    /\ calc.fn = "market" /\ calc.done /\ calc.payload.form = "badText"
    /\ calc.out.parseMarket.items = <<>> /\ calc.out.getMarketItems.items = <<>>
    /\ calc.out.gameState.produced

(***************************************************************************)
(* C19: with an include list that names something, the JSON context holds  *)
(* exactly the keys of include that are among game, adventurer,            *)
(* currentBeast, damagePreview, market, recentEvents and whose value in    *)
(* the full context is not undefined, each with the value of the full      *)
(* context (null included); other names are ignored and a key not          *)
(* requested is not present; without an include parameter the full         *)
(* context is returned.                                                    *)
(***************************************************************************)
C19_IncludeFilter ==
    (calc.fn = "contextJson" /\ calc.done) =>
        LET requested == {calc.include.pieces[i].name :
                             i \in 1..Len(calc.include.pieces)} \ {""}
        IN  /\ (calc.include.present /\ requested # {}) =>
                  /\ DOMAIN calc.out
                        = {k \in requested \cap ContextKeys : calc.context[k] # "undefined"}
                  /\ \A k \in DOMAIN calc.out : calc.out[k] = calc.context[k]
            /\ ~calc.include.present => calc.out = calc.context

\* currentBeast requested outside a battle, together with a name that is
\* no key: the response is {currentBeast: null}.
C19_Witness ==
    /\ calc.fn = "contextJson" /\ calc.done
    /\ calc.include.present /\ Len(calc.include.pieces) = 2
    /\ calc.include.pieces[1].name = "currentBeast"
    /\ calc.include.pieces[2].name = "phase"
    /\ calc.context["currentBeast"] = "null"
    /\ DOMAIN calc.out = {"currentBeast"} /\ calc.out["currentBeast"] = "null"

(***************************************************************************)
(* C22: for an equipped weapon with elemental damage e, the special bonus  *)
(* of calculateDamageVsBeast before the ring adjustment is 8e when only    *)
(* the prefixes match, 2e when only the suffixes match, 10e when both      *)
(* match and 0 otherwise; a name absent on either side (weapon below its   *)
(* unlock level, beast below level 19) is no match; a Platinum Ring adds   *)
(* floor(bonus * 3 * ringLevel / 100) only to a positive bonus.            *)
(***************************************************************************)
\* The name a weapon reports: its prefix from level 19, its suffix from
\* level 19 too (the suffix test is nested in the prefix test).
WeaponName(weapon, part) ==
    IF itemLevel(weapon) < PREFIXES_UNLOCK_GREATNESS THEN NULL ELSE weapon[part]

\* The name a beast reports: from level 19, 0 being no name.
BeastSpecial(b, part) ==
    IF b.level < BEAST_SPECIAL_NAME_LEVEL_UNLOCK \/ b[part] = 0 THEN NULL ELSE b[part]

SessionArgs == [gameId : {NULL, 7}]

InitSession ==
    /\ AgentIdle
    /\ row \in Rows \cup {NoRow}
    /\ events = <<>>
    /\ resp = Pending
    /\ \E args \in SessionArgs, defaultGameId \in {DEFAULT_GAME_ID, NaN} :
          session = [args |-> args, defaultGameId |-> defaultGameId,
                     memory |-> create(defaultGameId), pc |-> "created",
                     contexts |-> <<>>]
    /\ calc = CalcIdle
    /\ CombatIdle
    /\ FeedIdle

\* The id the loader loads: args.gameId if a number, else DEFAULT_GAME_ID
\* if finite, else undefined.
preferredGameId(args, defaultGameId) ==
    IF args.gameId # NULL THEN args.gameId
    ELSE IF defaultGameId # NaN THEN defaultGameId
    ELSE NULL

\* sessionContext.loader: the memory after the load.  loadGameState throws
\* when the game has no row; otherwise the phase is that of
\* mapRowToGameState.
loader(args, defaultGameId, r) ==
    LET preferred == preferredGameId(args, defaultGameId)
    IN  IF preferred = NULL
        THEN [hasActiveGame |-> FALSE, phase |-> "start", gameId |-> preferred]
        ELSE IF r.present
        THEN [hasActiveGame |-> TRUE, phase |-> determinePhase(r), gameId |-> preferred]
        ELSE [hasActiveGame |-> FALSE, phase |-> "start", gameId |-> preferred]

\* A composer that starts a battle for every loaded game that is not
\* levelling up.
useBattleFirst(args, memory) ==
    IF ~memory.hasActiveGame \/ memory.phase = "start" THEN <<"startGame">>
    ELSE LET gameId == IF memory.gameId # NULL THEN memory.gameId ELSE args.gameId
         IN  IF gameId = NULL THEN <<>>
             ELSE IF memory.phase = "level_up" THEN <<"statUpgrade">>
             ELSE IF memory.phase \in {"combat", "death"} THEN <<"battle">>
             ELSE IF memory.phase = "exploration" THEN <<"exploration", "market">>
             ELSE <<"exploration", "market">>

\* sessionContext.use: the contexts composed from the memory.
use(args, memory) ==
    IF ~memory.hasActiveGame \/ memory.phase = "start" THEN <<"startGame">>
    ELSE LET gameId == IF memory.gameId # NULL THEN memory.gameId ELSE args.gameId
         IN  IF gameId = NULL THEN <<>>
             ELSE IF memory.phase = "combat" THEN <<"battle">>
             ELSE IF memory.phase = "level_up" THEN <<"statUpgrade">>
             ELSE IF memory.phase = "exploration" THEN <<"exploration", "market">>
             ELSE IF memory.phase = "death" THEN <<"startGame">>
             ELSE <<"exploration", "market">>

SessionLoader ==
    /\ session' = [session EXCEPT
                     !.memory = loader(session.args, session.defaultGameId, row),
                     !.pc = "loaded", !.contexts = <<>>]
    /\ UNCHANGED <<row, events, resp, calc, combatVars, feedVars, agentVars>>

SessionUse ==
    /\ session.pc # "composed"
    /\ session' = [session EXCEPT !.pc = "composed",
                     !.contexts = use(session.args, session.memory)]
    /\ UNCHANGED <<row, events, resp, calc, combatVars, feedVars, agentVars>>

NextSession == SessionLoader \/ SessionUse

SpecSession == InitSession /\ [][NextSession]_vars

(***************************************************************************)
(* C20: the contexts composed by the session are determined by             *)
(* (hasActiveGame, phase): startGame alone when there is no active game,   *)
(* when loading the game state failed (the phase falls back to 'start') or *)
(* when the phase is death; battle alone in combat; statUpgrade alone in   *)
(* level_up; exploration with market in exploration.  battle is composed   *)
(* only in combat and market only in exploration.                          *)
(***************************************************************************)
Composed(name) == \E i \in 1..Len(session.contexts) : session.contexts[i] = name

C20_ComposedByPhase ==
    session.pc = "composed" =>
        LET m == session.memory
            active == m.hasActiveGame
        IN  /\ (~active \/ m.phase = "death") => session.contexts = <<"startGame">>
            /\ (active /\ m.phase = "combat") => session.contexts = <<"battle">>
            /\ (active /\ m.phase = "level_up") => session.contexts = <<"statUpgrade">>
            /\ (active /\ m.phase = "exploration")
                  => session.contexts = <<"exploration", "market">>
            /\ Composed("battle") => (active /\ m.phase = "combat")
            /\ Composed("market") => (active /\ m.phase = "exploration")
            \* a failed or impossible load leaves no active game and 'start'
            /\ (preferredGameId(session.args, session.defaultGameId) = NULL
                  \/ ~row.present)
                  => (~active /\ m.phase = "start"
                        /\ session.contexts = <<"startGame">>)

\* A loaded game whose adventurer is dead: startGame alone is composed.
C20_Witness ==
    /\ session.pc = "composed"
    /\ session.memory.hasActiveGame /\ session.memory.phase = "death"
    /\ row.present
    /\ session.contexts = <<"startGame">>

(***************************************************************************)
(* Specification of the agent's game-state cache:                          *)
(* agent/src/services/gameState.ts.  loadGameState is an async function:   *)
(* it runs up to its await in one step (cache hit, or the fetch is         *)
(* issued) and, after the fetch resolves, in a second step (cache.set and  *)
(* return).  Calls of several loaders and resets interleave at the await.  *)
(* One game id is modelled.  A snapshot is named by the number of resets   *)
(* that had happened when its fetch was issued.                            *)
(***************************************************************************)
MaxCalls == 3           \* loadGameState calls 1..MaxCalls
MaxResets == 2          \* at most MaxResets calls of resetGameStateCache

Calls == 1..MaxCalls

NoLoad == [pc |-> "idle", started |-> NULL, issued |-> NULL, result |-> NULL]

InitCache ==
    /\ gameStateCache = NoCache
    /\ loads = [c \in Calls |-> NoLoad]
    /\ itemEntity = NoItemEntity
    /\ client = NoClient
    /\ PhaseIdle
    /\ calc = CalcIdle
    /\ CombatIdle
    /\ FeedIdle

\* loadGameState up to the await: a cached snapshot is returned at once,
\* otherwise getGameState is issued.
LoadGameStateStart(c) ==
    /\ loads[c].pc = "idle"
    /\ loads' = [loads EXCEPT ![c] =
                    IF gameStateCache.entry # NULL
                    THEN [pc |-> "done", started |-> gameStateCache.resets,
                          issued |-> NULL, result |-> gameStateCache.entry]
                    ELSE [pc |-> "fetching", started |-> gameStateCache.resets,
                          issued |-> gameStateCache.resets, result |-> NULL]]
    /\ UNCHANGED <<gameStateCache, itemEntity, client, phaseVars, calc, combatVars,
                   feedVars>>

\* The fetch resolved: gameStateCache.set(gameId, gameState); return.
LoadGameStateResolve(c) ==
    /\ loads[c].pc = "fetching"
    /\ gameStateCache' = [gameStateCache EXCEPT !.entry = loads[c].issued]
    /\ loads' = [loads EXCEPT ![c].pc = "done", ![c].result = loads[c].issued]
    /\ UNCHANGED <<itemEntity, client, phaseVars, calc, combatVars, feedVars>>

\* getGameState threw (no row, or the query failed): nothing is cached.
LoadGameStateReject(c) ==
    /\ loads[c].pc = "fetching"
    /\ loads' = [loads EXCEPT ![c].pc = "failed"]
    /\ UNCHANGED <<gameStateCache, itemEntity, client, phaseVars, calc, combatVars,
                   feedVars>>

\* resetGameStateCache: gameStateCache.clear().
ResetGameStateCache ==
    /\ gameStateCache.resets < MaxResets
    /\ gameStateCache' = [entry |-> NULL, resets |-> gameStateCache.resets + 1]
    /\ UNCHANGED <<loads, itemEntity, client, phaseVars, calc, combatVars, feedVars>>

NextCache ==
    \/ \E c \in Calls : LoadGameStateStart(c)
    \/ \E c \in Calls : LoadGameStateResolve(c)
    \/ \E c \in Calls : LoadGameStateReject(c)
    \/ ResetGameStateCache

SpecCache == InitCache /\ [][NextCache]_vars

(***************************************************************************)
(* C21: every loadGameState call that starts after a reset returns a       *)
(* snapshot whose fetch was issued after that reset, in every              *)
(* interleaving of calls and resets: a call that started after the r-th    *)
(* reset never returns a snapshot fetched before the r-th reset.           *)
(***************************************************************************)
C21_FreshAfterReset ==
    \A c \in Calls :
        loads[c].pc = "done" => loads[c].result >= loads[c].started

(***************************************************************************)
(* Specification of an ItemEntity (core/Entity.ts, entities/ItemEntity):   *)
(* fetch, fromRaw and withXP set the raw data, the getters compute through *)
(* Entity.cache.  `read` is the result of the last getter since the raw    *)
(* data was last set.                                                      *)
(***************************************************************************)
EntityItemIds == {9, 42, 77, 82}

EntityXps == {0, 9, 400}

NoRead == [key |-> "none", number |-> 0, text |-> ""]

InitEntity ==
    /\ itemEntity = NoItemEntity
    /\ gameStateCache = NoCache
    /\ loads = <<>>
    /\ client = NoClient
    /\ PhaseIdle
    /\ calc = CalcIdle
    /\ CombatIdle
    /\ FeedIdle

\* Entity.cache(key, compute): the cached value if the key is set, else the
\* computed value, which is stored.
cache(cached, key, value) ==
    IF key \in cached.keys THEN cached
    ELSE [cached EXCEPT !.keys = @ \cup {key}, ![key] = value]

\* Entity.clearCache.
clearCache(cached) == NoItemEntity.cached

\* ItemEntity.fetch: raw = {id, xp: 0}.
ItemFetch(id) ==
    /\ itemEntity' = [itemEntity EXCEPT
                        !.raw = [present |-> TRUE, id |-> id, xp |-> 0],
                        !.read = NoRead]
    /\ UNCHANGED <<gameStateCache, loads, client, phaseVars, calc, combatVars, feedVars>>

\* ItemEntity.fromRaw: raw = the given raw item.
ItemFromRaw(id, xp) ==
    /\ itemEntity' = [itemEntity EXCEPT
                        !.raw = [present |-> TRUE, id |-> id, xp |-> xp],
                        !.read = NoRead]
    /\ UNCHANGED <<gameStateCache, loads, client, phaseVars, calc, combatVars, feedVars>>

\* ItemEntity.withXP: throws without raw data; sets raw.xp and clears the
\* cache.
ItemWithXP(xp) ==
    /\ itemEntity.raw.present
    /\ itemEntity' = [itemEntity EXCEPT
                        !.raw.xp = xp,
                        !.cached = clearCache(itemEntity.cached),
                        !.read = NoRead]
    /\ UNCHANGED <<gameStateCache, loads, client, phaseVars, calc, combatVars, feedVars>>

\* getLevel / getTier / getType / getSlot: ensureLoaded, then cache(key, ...).
ItemGet(key) ==
    /\ itemEntity.raw.present
    /\ LET value == CASE key = "level" -> calculateLevel(itemEntity.raw.xp)
                      [] key = "tier" -> calculateTier(itemEntity.raw.id)
                      [] key = "type" -> calculateType(itemEntity.raw.id)
                      [] key = "slot" -> calculateSlot(itemEntity.raw.id)
           after == cache(itemEntity.cached, key, value)
       IN  itemEntity' = [itemEntity EXCEPT
                            !.cached = after,
                            !.read = IF key \in {"level", "tier"}
                                     THEN [key |-> key, number |-> after[key], text |-> ""]
                                     ELSE [key |-> key, number |-> 0, text |-> after[key]]]
    /\ UNCHANGED <<gameStateCache, loads, client, phaseVars, calc, combatVars, feedVars>>

NextEntity ==
    \/ \E id \in EntityItemIds : ItemFetch(id)
    \/ \E id \in EntityItemIds, xp \in EntityXps : ItemFromRaw(id, xp)
    \/ \E xp \in EntityXps : ItemWithXP(xp)
    \/ \E key \in {"level", "tier", "type", "slot"} : ItemGet(key)

SpecEntity == InitEntity /\ [][NextEntity]_vars

(***************************************************************************)
(* C27: the memoised values of an ItemEntity agree with its raw data:      *)
(* after any sequence of fetch, fromRaw and withXP interleaved with reads, *)
(* getLevel() is calculateLevel(raw.xp) and getTier() / getType() /        *)
(* getSlot() are the classification of the current raw.id; no read         *)
(* returns a value computed from raw data that has been replaced.          *)
(***************************************************************************)
C27_ReadsAreCurrent ==
    /\ itemEntity.read.key = "level"
          => itemEntity.read.number = calculateLevel(itemEntity.raw.xp)
    /\ itemEntity.read.key = "tier"
          => itemEntity.read.number = calculateTier(itemEntity.raw.id)
    /\ itemEntity.read.key = "type"
          => itemEntity.read.text = calculateType(itemEntity.raw.id)
    /\ itemEntity.read.key = "slot"
          => itemEntity.read.text = calculateSlot(itemEntity.raw.id)

(***************************************************************************)
(* Specification of the agent's SystemCallsClient (services/systemCalls):  *)
(* executeAction and claimBeast.  Each step runs the code between two      *)
(* awaits; the replies of the account and of the RPC node are chosen       *)
(* nondeterministically.  `resets` counts the calls of onReset, `polls`    *)
(* the calls of getAdventurerState, `sawZero` tells whether a reply that   *)
(* carried the adventurer state reported beast_health 0.                   *)
(***************************************************************************)
PreConfirmedRetries == 5

BeastClaimRetries == 19

ExecuteStart(hasOnReset) ==
    [op |-> "executeAction", pc |-> "start", hasOnReset |-> hasOnReset,
     retries |-> 0, resets |-> 0, failure |-> "none", outcome |-> "pending"]

ClaimStart ==
    [op |-> "claimBeast", pc |-> "polling", retries |-> 0, polls |-> 0,
     beast_health |-> NULL, sawZero |-> FALSE, submitted |-> FALSE]

InitClient ==
    /\ client \in {ExecuteStart(hasOnReset) : hasOnReset \in BOOLEAN} \cup {ClaimStart}
    /\ gameStateCache = NoCache
    /\ loads = <<>>
    /\ itemEntity = NoItemEntity
    /\ PhaseIdle
    /\ calc = CalcIdle
    /\ CombatIdle
    /\ FeedIdle

\* onReset?.(): one more call of the callback if one was given.
onReset(c) == IF c.hasOnReset THEN [c EXCEPT !.resets = @ + 1] ELSE c

\* The catch block of executeAction: onReset?.(); throw error.
catchAndRethrow(c, failure) ==
    [onReset(c) EXCEPT !.pc = "done", !.failure = failure, !.outcome = "raised"]

\* executeAction from the receipt on: a reverted receipt resets and returns
\* undefined; a 'Fatal Error' among the translated events resets and
\* throws inside the try block, so the catch block runs as well; otherwise
\* the translated events are returned.
afterReceipt(c, receipt) ==
    CASE receipt = "REVERTED" ->
            [onReset(c) EXCEPT !.pc = "done", !.failure = "reverted",
                               !.outcome = "undefined"]
      [] receipt = "FatalError" -> catchAndRethrow(onReset(c), "fatal")
      [] OTHER -> [c EXCEPT !.pc = "done", !.outcome = "events"]

\* executeAction up to its first await: account.execute(calls) resolves
\* with a transaction or rejects.
ExecuteActionSubmit ==
    /\ client.op = "executeAction" /\ client.pc = "start"
    /\ \E accepted \in BOOLEAN :
          client' = IF accepted THEN [client EXCEPT !.pc = "waiting"]
                    ELSE catchAndRethrow(client, "submission")
    /\ UNCHANGED <<gameStateCache, loads, itemEntity, phaseVars, calc, combatVars,
                   feedVars>>

\* waitForPreConfirmedTransaction(txHash, retries): throws once retries > 5;
\* a rejected wait retries; a receipt ends executeAction.
WaitForPreConfirmedTransaction ==
    /\ client.op = "executeAction" /\ client.pc = "waiting"
    /\ IF client.retries > PreConfirmedRetries
       THEN client' = catchAndRethrow(client, "exhausted")
       ELSE \E reply \in {"rejected", "REVERTED", "FatalError", "SUCCEEDED"} :
               client' = IF reply = "rejected"
                         THEN [client EXCEPT !.retries = @ + 1]
                         ELSE afterReceipt(client, reply)
    /\ UNCHANGED <<gameStateCache, loads, itemEntity, phaseVars, calc, combatVars,
                   feedVars>>

\* getAdventurerState: null when the call throws; otherwise beast_health is
\* parseInt(data?.result?.[3] ?? '0', 16), 0 for a reply without result.
getAdventurerState(reply) ==
    CASE reply = "throws" -> [some |-> FALSE, beast_health |-> NULL]
      [] reply = "noResult" -> [some |-> TRUE, beast_health |-> 0]
      [] reply = "alive" -> [some |-> TRUE, beast_health |-> 5]
      [] reply = "dead" -> [some |-> TRUE, beast_health |-> 0]

\* waitForBeastClaim(gameId, retries): one poll; done when beast_health is 0
\* or retries > 19, else polls again.  claimBeast ignores the result.
WaitForBeastClaim ==
    /\ client.op = "claimBeast" /\ client.pc = "polling"
    /\ \E reply \in {"throws", "noResult", "alive", "dead"} :
          LET adventurerState == getAdventurerState(reply)
              finished == (adventurerState.some /\ adventurerState.beast_health = 0)
                             \/ client.retries > BeastClaimRetries
          IN  client' = [client EXCEPT
                           !.polls = @ + 1,
                           !.beast_health = adventurerState.beast_health,
                           !.sawZero = @ \/ reply = "dead",
                           !.pc = IF finished THEN "claiming" ELSE "polling",
                           !.retries = IF finished THEN @ ELSE @ + 1]
    /\ UNCHANGED <<gameStateCache, loads, itemEntity, phaseVars, calc, combatVars,
                   feedVars>>

\* claimBeast after the wait: account.execute([claim_beast]).  The receipt
\* and token lookups that follow submit nothing further for the beast.
ClaimBeastSubmit ==
    /\ client.op = "claimBeast" /\ client.pc = "claiming"
    /\ client' = [client EXCEPT !.pc = "done", !.submitted = TRUE]
    /\ UNCHANGED <<gameStateCache, loads, itemEntity, phaseVars, calc, combatVars,
                   feedVars>>

NextClient ==
    \/ ExecuteActionSubmit
    \/ WaitForPreConfirmedTransaction
    \/ WaitForBeastClaim
    \/ ClaimBeastSubmit

SpecClient == InitClient /\ [][NextClient]_vars

(***************************************************************************)
(* C28: executeAction calls onReset exactly once for every failed action   *)
(* (submission error, wait exhaustion, reverted receipt, 'Fatal Error'     *)
(* event) and never for a successful one; a reverted receipt yields        *)
(* undefined without raising, the other failures raise.                    *)
(***************************************************************************)
C28_ResetOncePerFailure ==
    (client.op = "executeAction" /\ client.pc = "done" /\ client.hasOnReset) =>
        /\ client.failure # "none" => client.resets = 1
        /\ client.failure = "none" => (client.resets = 0 /\ client.outcome = "events")
        /\ client.failure = "reverted" => client.outcome = "undefined"
        /\ client.failure \in {"submission", "exhausted", "fatal"}
              => client.outcome = "raised"

\* The same without the 'Fatal Error' case.
C28_OtherFailures ==
    (client.op = "executeAction" /\ client.pc = "done" /\ client.hasOnReset
        /\ client.failure # "fatal") =>
        /\ client.failure # "none" => client.resets = 1
        /\ client.failure = "none" => (client.resets = 0 /\ client.outcome = "events")
        /\ client.failure = "reverted" => client.outcome = "undefined"
        /\ client.failure \in {"submission", "exhausted"} => client.outcome = "raised"

(***************************************************************************)
(* C29: claimBeast submits claim_beast only after beast_health was         *)
(* observed to be 0; the polling of waitForBeastClaim ends after at most   *)
(* 21 polls; if beast_health was never observed as 0, or the state could   *)
(* not be read, no claim is submitted.                                     *)
(***************************************************************************)
C29_ClaimAfterBeastDead ==
    client.op = "claimBeast" =>
        /\ client.polls <= BeastClaimRetries + 2
        /\ client.submitted => client.sawZero

\* The polling is bounded in every run.
C29_PollsBounded ==
    client.op = "claimBeast" => client.polls <= BeastClaimRetries + 2

====
